---- MODULE Spec2Model ----
(***************************************************************************)
(* A model of the data-normalization pipeline of credpulse-backend         *)
(* (backend/data_handler): handle_duplicates, replace_values,              *)
(* convert_columns_dtype / convert_date_columns, handle_missing_values and *)
(* the orchestrator preprocess.                                            *)
(*                                                                         *)
(* A DataFrame is a record [cols, rows]: cols is the ordered sequence of   *)
(* column names; rows is the ordered sequence of rows, each a record       *)
(* [idx, v] with idx the row's index label and v a function from column    *)
(* name to cell.  A cell is a record [t, s, n, d]: t the Python type of    *)
(* the value ("null" for None, NaN and NaT), s its characters when it is a *)
(* string, n / d its number otherwise (d = 1 unless it is a float).        *)
(***************************************************************************)
EXTENDS Integers, Sequences, FiniteSets, TLC

(***************************************************************************)
(* Bounds of the model.                                                    *)
(***************************************************************************)
MaxRows == 3

MaxPipeRows == 3

MaxStageRows == 2

(* rows of the tables handle_missing_values is called with on its own *)
MaxImputeRows == 20

(* rows of the tables whose missing values are filled *)
MaxFillRows == 3

(* invocations of preprocess running side by side *)
Invocations == 2

(***************************************************************************)
(* Cells.                                                                  *)
(***************************************************************************)
NA == [t |-> "null", s |-> <<>>, n |-> 0, d |-> 1]

IntCell(k) == [t |-> "int", s |-> <<>>, n |-> k, d |-> 1]

FloatCell(num, den) == [t |-> "float", s |-> <<>>, n |-> num, d |-> den]

StrCell(chars) == [t |-> "str", s |-> chars, n |-> 0, d |-> 1]

BoolCell(b) == [t |-> "bool", s |-> <<>>, n |-> IF b THEN 1 ELSE 0, d |-> 1]

(***************************************************************************)
(* Sequence helpers.                                                       *)
(***************************************************************************)
Range(seq) == {seq[i] : i \in 1..Len(seq)}

RECURSIVE SelectIdx(_, _, _)
SelectIdx(seq, keepAt, i) ==
    IF i > Len(seq) THEN <<>>
    ELSE (IF keepAt[i] THEN <<seq[i]>> ELSE <<>>) \o SelectIdx(seq, keepAt, i + 1)

(***************************************************************************)
(* pandas: DataFrame.duplicated(subset, keep).  subset is a record         *)
(* [none, cols]: none = TRUE is Python's subset=None (all columns).  keep  *)
(* is "first", "last" or "False" (Python's False).  Missing values compare *)
(* equal to each other.  The result is the boolean Series, by position.    *)
(***************************************************************************)
NoSubset == [none |-> TRUE, cols |-> <<>>]

SubsetOf(colseq) == [none |-> FALSE, cols |-> colseq]

KeyCols(df, subset) == IF subset.none THEN Range(df.cols) ELSE Range(subset.cols)

RowKey(row, keycols) == [c \in keycols |-> row.v[c]]

duplicated(df, subset, keep) ==
    LET kc == KeyCols(df, subset)
        n == Len(df.rows)
        same(i, j) == RowKey(df.rows[i], kc) = RowKey(df.rows[j], kc)
    IN [i \in 1..n |->
          CASE keep = "first" -> \E j \in 1..(i - 1) : same(i, j)
            [] keep = "last" -> \E j \in (i + 1)..n : same(i, j)
            [] OTHER -> \E j \in (1..n) \ {i} : same(i, j)]

(***************************************************************************)
(* pandas: DataFrame.drop_duplicates(subset, keep): the rows that          *)
(* duplicated() does not flag, in order, with their index labels.          *)
(***************************************************************************)
drop_duplicates_first_flagged_only(df, subset, keep) ==
    LET dup == duplicated(df, subset, keep)
        first == {i \in 1..Len(df.rows) : dup[i] /\ \A j \in 1..(i - 1) : ~dup[j]}
    IN [cols |-> df.cols,
        rows |-> SelectIdx(df.rows, [i \in 1..Len(df.rows) |-> i \notin first], 1)]

drop_duplicates(df, subset, keep) ==
    LET dup == duplicated(df, subset, keep)
    IN [cols |-> df.cols,
        rows |-> SelectIdx(df.rows, [i \in 1..Len(df.rows) |-> ~dup[i]], 1)]

(***************************************************************************)
(* pandas: df[name] = series.  Assigning a column that exists replaces its *)
(* values in place; assigning a new name appends the column.               *)
(***************************************************************************)
SetColumn(df, name, series) ==
    [cols |-> IF name \in Range(df.cols) THEN df.cols ELSE Append(df.cols, name),
     rows |-> [i \in 1..Len(df.rows) |->
                 [idx |-> df.rows[i].idx,
                  v |-> [c \in Range(df.cols) \cup {name} |->
                           IF c = name THEN series[i] ELSE df.rows[i].v[c]]]]]

(***************************************************************************)
(* handle_duplicates(df, case, subset, keep, inplace).  The result is a    *)
(* record: ret is the returned DataFrame, obj is the caller's DataFrame    *)
(* object after the call, same tells whether ret is that very object.      *)
(***************************************************************************)
SameObject(df) == [ret |-> df, obj |-> df, same |-> TRUE]

NewObject(new, df) == [ret |-> new, obj |-> df, same |-> FALSE]

(* duplicate_exists = df.duplicated(subset=subset, keep=keep).any()        *)
duplicate_exists_unchecked(df, subset, keep) == TRUE

duplicate_exists(df, subset, keep) ==
    \E i \in 1..Len(df.rows) : duplicated(df, subset, keep)[i]

(* case == "remove"                                                        *)
remove_case_keep_first(df, subset, keep, inplace) ==
    IF inplace THEN SameObject(drop_duplicates(df, subset, "first"))
    ELSE NewObject(drop_duplicates(df, subset, "first"), df)

remove_case(df, subset, keep, inplace) ==
    IF inplace THEN SameObject(drop_duplicates(df, subset, keep))
    ELSE NewObject(drop_duplicates(df, subset, keep), df)

(* case == "mark"                                                          *)
mark_case_all_columns(df, subset, keep) ==
    SameObject(SetColumn(df, "is_duplicate",
                         [i \in 1..Len(df.rows) |->
                            BoolCell(duplicated(df, NoSubset, keep)[i])]))

mark_case(df, subset, keep) ==
    SameObject(SetColumn(df, "is_duplicate",
                         [i \in 1..Len(df.rows) |->
                            BoolCell(duplicated(df, subset, keep)[i])]))

(* case == "keep_last"                                                     *)
keep_last_case_passes_keep(df, subset, keep, inplace) ==
    IF inplace THEN SameObject(drop_duplicates(df, subset, keep))
    ELSE NewObject(drop_duplicates(df, subset, keep), df)

keep_last_case(df, subset, keep, inplace) ==
    IF inplace THEN SameObject(drop_duplicates(df, subset, "last"))
    ELSE NewObject(drop_duplicates(df, subset, "last"), df)

(* else: "Invalid case"                                                    *)
invalid_case_removes(df, subset, keep) == NewObject(drop_duplicates(df, subset, keep), df)

invalid_case(df, subset, keep) == SameObject(df)

handle_duplicates(df, case, subset, keep, inplace) ==
    IF ~duplicate_exists(df, subset, keep) THEN SameObject(df)
    ELSE CASE case = "remove" -> remove_case(df, subset, keep, inplace)
           [] case = "mark" -> mark_case(df, subset, keep)
           [] case = "keep_last" -> keep_last_case(df, subset, keep, inplace)
           [] OTHER -> invalid_case(df, subset, keep)

(***************************************************************************)
(* Results of the pipeline's stages: ret is the returned DataFrame, obj    *)
(* the DataFrame object that was passed in as it is after the call, same   *)
(* tells whether ret is that object, raised whether the call raised (then  *)
(* nothing is returned and ret is only a placeholder).                     *)
(***************************************************************************)
Returned(r) == [ret |-> r.ret, obj |-> r.obj, same |-> r.same, raised |-> FALSE]

Raises(df) == [ret |-> df, obj |-> df, same |-> TRUE, raised |-> TRUE]

(***************************************************************************)
(* pandas: Series.replace(value_to_replace, value_to_replace_with) on the  *)
(* column: every cell equal to the value becomes the replacement.          *)
(***************************************************************************)
Column(df, name) == [i \in 1..Len(df.rows) |-> df.rows[i].v[name]]

replace(series, value_to_replace, value_to_replace_with) ==
    [i \in 1..Len(series) |->
       IF series[i] = value_to_replace THEN value_to_replace_with ELSE series[i]]

(***************************************************************************)
(* replace_values(df, data_config).  data_config.replace_values is a       *)
(* record [st, entries]: st = "absent" when a key of the path              *)
(* configuration / data_specific_functions / replace_values is missing.    *)
(* The assignment df[column_name] = ... changes the passed object.         *)
(***************************************************************************)
replace_values_raises_on_missing_key(df, data_config) ==
    LET rv == data_config.replace_values
    IN IF rv.st = "absent" \/ rv.entries = <<>> THEN Raises(df)
       ELSE LET replace_config == rv.entries[1]
                column_name == replace_config.column_name
            IN IF replace_config.values_to_replace = <<>>
                  \/ replace_config.values_to_replace_with = <<>>
               THEN Raises(df)
               ELSE IF column_name \notin Range(df.cols) THEN Returned(SameObject(df))
               ELSE Returned(SameObject(
                      SetColumn(df, column_name,
                                replace(Column(df, column_name),
                                        replace_config.values_to_replace[1],
                                        replace_config.values_to_replace_with[1]))))

replace_values_last_pair(df, data_config) ==
    LET rv == data_config.replace_values
    IN IF rv.st = "absent" THEN Returned(SameObject(df))
       ELSE IF rv.entries = <<>> THEN Raises(df)
       ELSE LET replace_config == rv.entries[1]
                column_name == replace_config.column_name
                to_replace == replace_config.values_to_replace
                with == replace_config.values_to_replace_with
            IN IF to_replace = <<>> \/ with = <<>> THEN Raises(df)
               ELSE IF column_name \notin Range(df.cols) THEN Returned(SameObject(df))
               ELSE Returned(SameObject(
                      SetColumn(df, column_name,
                                replace(Column(df, column_name),
                                        to_replace[Len(to_replace)], with[Len(with)]))))

replace_values(df, data_config) ==
    LET rv == data_config.replace_values
    IN IF rv.st = "absent" THEN Returned(SameObject(df))     \* KeyError, line 31
       ELSE IF rv.entries = <<>> THEN Raises(df)             \* IndexError, line 34
       ELSE LET replace_config == rv.entries[1]
                column_name == replace_config.column_name
            IN IF replace_config.values_to_replace = <<>>
                  \/ replace_config.values_to_replace_with = <<>>
               THEN Raises(df)                               \* IndexError, line 34
               ELSE IF column_name \notin Range(df.cols)
               THEN Returned(SameObject(df))                 \* KeyError, line 31
               ELSE Returned(SameObject(
                      SetColumn(df, column_name,
                                replace(Column(df, column_name),
                                        replace_config.values_to_replace[1],
                                        replace_config.values_to_replace_with[1]))))

(***************************************************************************)
(* Strings are sequences of one-character strings.  Python slicing,        *)
(* str.zfill, str.replace of a one-character separator, int -> str.        *)
(***************************************************************************)
Digits == <<"0", "1", "2", "3", "4", "5", "6", "7", "8", "9">>

IsDigit(c) == c \in Range(Digits)

DigitVal(c) == (CHOOSE i \in 1..10 : Digits[i] = c) - 1

AllDigits(chars) == \A i \in 1..Len(chars) : IsDigit(chars[i])

RECURSIVE Num(_)
Num(chars) ==
    IF chars = <<>> THEN 0
    ELSE 10 * Num(SubSeq(chars, 1, Len(chars) - 1)) + DigitVal(chars[Len(chars)])

RECURSIVE NatChars(_)
NatChars(k) == IF k < 10 THEN <<Digits[k + 1]>> ELSE NatChars(k \div 10) \o <<Digits[(k % 10) + 1]>>

RECURSIVE ZeroPad(_, _)
ZeroPad(chars, width) == IF Len(chars) >= width THEN chars ELSE ZeroPad(<<"0">> \o chars, width)

SliceIndex(i, n) == IF i < 0 THEN (IF n + i < 0 THEN 0 ELSE n + i) ELSE (IF i > n THEN n ELSE i)

(* x[lo:hi] *)
Slice(x, lo, hi) ==
    LET from == SliceIndex(lo, Len(x))
        to == SliceIndex(hi, Len(x))
    IN IF to <= from THEN <<>> ELSE SubSeq(x, from + 1, to)

(* x[lo:] *)
SliceFrom(x, lo) == Slice(x, lo, Len(x))

(* x[:hi] *)
SliceTo(x, hi) == Slice(x, 0, hi)

(* x.zfill(width): the zeros go after a leading sign *)
zfill(x, width) ==
    IF x # <<>> /\ x[1] \in {"+", "-"}
    THEN <<x[1]>> \o ZeroPad(SubSeq(x, 2, Len(x)), width - 1)
    ELSE ZeroPad(x, width)

(* x or default: the empty string is false *)
OrElse(x, default) == IF x = <<>> THEN default ELSE x

RemoveChar(x, sep) == SelectSeq(x, LAMBDA c : c # sep)

(* str(value) of a cell that is not null *)
PyStr(cell) ==
    CASE cell.t = "str" -> cell.s
      [] cell.t = "bool" -> IF cell.n = 1 THEN <<"T", "r", "u", "e">> ELSE <<"F", "a", "l", "s", "e">>
      [] cell.t = "int" -> IF cell.n < 0 THEN <<"-">> \o NatChars(-cell.n) ELSE NatChars(cell.n)
      [] OTHER -> (IF cell.n < 0 THEN <<"-">> \o NatChars((-cell.n) \div cell.d)
                   ELSE NatChars(cell.n \div cell.d))
                  \o <<".">> \o NatChars((((IF cell.n < 0 THEN -cell.n ELSE cell.n) % cell.d) * 10) \div cell.d)

(***************************************************************************)
(* Desired date format for output: "%Y-%m-%d".                             *)
(***************************************************************************)
DESIRED_DATE_FORMAT == <<"%Y", "-", "%m", "-", "%d">>

IsLeap(y) == (y % 4 = 0 /\ y % 100 # 0) \/ y % 400 = 0

DaysIn(y, m) ==
    CASE m = 2 -> IF IsLeap(y) THEN 29 ELSE 28
      [] m \in {4, 6, 9, 11} -> 30
      [] OTHER -> 31

(* a Timestamp: a calendar date within pandas' nanosecond range *)
ValidDate(y, m, d) ==
    /\ y >= 1678 /\ y <= 2261
    /\ m >= 1 /\ m <= 12
    /\ d >= 1 /\ d <= DaysIn(y, m)

NoDate == [ok |-> FALSE, Y |-> 0, m |-> 0, d |-> 0]

(* Series.dt.strftime(DESIRED_DATE_FORMAT) of one Timestamp *)
strftime(ts) ==
    StrCell(ZeroPad(NatChars(ts.Y), 4) \o <<"-">> \o ZeroPad(NatChars(ts.m), 2)
            \o <<"-">> \o ZeroPad(NatChars(ts.d), 2))

(***************************************************************************)
(* STOCK_DATE_FORMATS: the formats handed to pandas.to_datetime as they    *)
(* are.  FormatTokens splits a format into its directives and literal      *)
(* characters.                                                             *)
(***************************************************************************)
STOCK_DATE_FORMATS ==
    <<"ISO8601",
      "%Y-%m-%d",
      "%Y%m%d",
      "%m/%d/%Y",
      "%m-%d-%Y",
      "%m.%d.%Y",
      "%b %d, %Y",
      "%B %d, %Y",
      "%d/%m/%Y",
      "%d-%m-%Y",
      "%d.%m.%Y",
      "%d %b %Y",
      "%d %B %Y",
      "%Y/%m/%d",
      "%Y.%m.%d",
      "%Y-%m-%d %H:%M:%S",
      "%Y-%m-%d %H:%M:%S.%f",
      "%Y-%m-%dT%H:%M:%S",
      "%Y-%m-%dT%H:%M:%S.%f",
      "%y-%m-%d",
      "%d/%m/%y",
      "%m/%d/%y",
      "%b-%d-%Y",
      "%B-%d-%Y">>

FormatTokens(format) ==
    CASE format = "%Y-%m-%d" -> <<"%Y", "-", "%m", "-", "%d">>
      [] format = "%Y%m%d" -> <<"%Y", "%m", "%d">>
      [] format = "%m/%d/%Y" -> <<"%m", "/", "%d", "/", "%Y">>
      [] format = "%m-%d-%Y" -> <<"%m", "-", "%d", "-", "%Y">>
      [] format = "%m.%d.%Y" -> <<"%m", ".", "%d", ".", "%Y">>
      [] format = "%b %d, %Y" -> <<"%b", " ", "%d", ",", " ", "%Y">>
      [] format = "%B %d, %Y" -> <<"%B", " ", "%d", ",", " ", "%Y">>
      [] format = "%d/%m/%Y" -> <<"%d", "/", "%m", "/", "%Y">>
      [] format = "%d-%m-%Y" -> <<"%d", "-", "%m", "-", "%Y">>
      [] format = "%d.%m.%Y" -> <<"%d", ".", "%m", ".", "%Y">>
      [] format = "%d %b %Y" -> <<"%d", " ", "%b", " ", "%Y">>
      [] format = "%d %B %Y" -> <<"%d", " ", "%B", " ", "%Y">>
      [] format = "%Y/%m/%d" -> <<"%Y", "/", "%m", "/", "%d">>
      [] format = "%Y.%m.%d" -> <<"%Y", ".", "%m", ".", "%d">>
      [] format = "%Y-%m-%d %H:%M:%S" -> <<"%Y", "-", "%m", "-", "%d", " ", "%H", ":", "%M", ":", "%S">>
      [] format = "%Y-%m-%d %H:%M:%S.%f" -> <<"%Y", "-", "%m", "-", "%d", " ", "%H", ":", "%M", ":", "%S", ".", "%f">>
      [] format = "%Y-%m-%dT%H:%M:%S" -> <<"%Y", "-", "%m", "-", "%d", "T", "%H", ":", "%M", ":", "%S">>
      [] format = "%Y-%m-%dT%H:%M:%S.%f" -> <<"%Y", "-", "%m", "-", "%d", "T", "%H", ":", "%M", ":", "%S", ".", "%f">>
      [] format = "%y-%m-%d" -> <<"%y", "-", "%m", "-", "%d">>
      [] format = "%d/%m/%y" -> <<"%d", "/", "%m", "/", "%y">>
      [] format = "%m/%d/%y" -> <<"%m", "/", "%d", "/", "%y">>
      [] format = "%b-%d-%Y" -> <<"%b", "-", "%d", "-", "%Y">>
      [] format = "%B-%d-%Y" -> <<"%B", "-", "%d", "-", "%Y">>
      [] OTHER -> <<>>

(***************************************************************************)
(* pandas.to_datetime(value, format=...) of one string, as strptime        *)
(* matches it: every directive is a group of alternatives tried in order   *)
(* (%m is 1[0-2]|0[1-9]|[1-9]), letters match in either case, a space of   *)
(* the format matches one or more spaces, and the match must use up the    *)
(* whole string.  MatchFrom gives the matches in the order the regular     *)
(* expression finds them, each with the date fields read so far and the    *)
(* characters left.                                                        *)
(***************************************************************************)
UpperLetters ==
    <<"A", "B", "C", "D", "E", "F", "G", "H", "I", "J", "K", "L", "M",
      "N", "O", "P", "Q", "R", "S", "T", "U", "V", "W", "X", "Y", "Z">>

LowerLetters ==
    <<"a", "b", "c", "d", "e", "f", "g", "h", "i", "j", "k", "l", "m",
      "n", "o", "p", "q", "r", "s", "t", "u", "v", "w", "x", "y", "z">>

Lower(c) ==
    IF c \in Range(UpperLetters)
    THEN LowerLetters[CHOOSE i \in 1..26 : UpperLetters[i] = c]
    ELSE c

LowerAll(chars) == [i \in 1..Len(chars) |-> Lower(chars[i])]

MonthNames ==
    <<<<"j", "a", "n", "u", "a", "r", "y">>,
       <<"f", "e", "b", "r", "u", "a", "r", "y">>,
       <<"m", "a", "r", "c", "h">>,
       <<"a", "p", "r", "i", "l">>,
       <<"m", "a", "y">>,
       <<"j", "u", "n", "e">>,
       <<"j", "u", "l", "y">>,
       <<"a", "u", "g", "u", "s", "t">>,
       <<"s", "e", "p", "t", "e", "m", "b", "e", "r">>,
       <<"o", "c", "t", "o", "b", "e", "r">>,
       <<"n", "o", "v", "e", "m", "b", "e", "r">>,
       <<"d", "e", "c", "e", "m", "b", "e", "r">>>>

StartsWith(chars, prefix) ==
    Len(chars) >= Len(prefix) /\ SubSeq(chars, 1, Len(prefix)) = prefix

(* the ways a numeric directive reads a prefix of chars, widest first:     *)
(* widths is the sequence of widths to try, lo..hi the values allowed      *)
RECURSIVE NumberReads(_, _, _, _)
NumberReads(chars, widths, lo, hi) ==
    IF widths = <<>> THEN <<>>
    ELSE LET w == Head(widths)
             ok == /\ Len(chars) >= w
                   /\ AllDigits(SubSeq(chars, 1, w))
                   /\ Num(SubSeq(chars, 1, w)) >= lo
                   /\ Num(SubSeq(chars, 1, w)) <= hi
         IN (IF ok THEN <<[val |-> Num(SubSeq(chars, 1, w)), len |-> w]>> ELSE <<>>)
            \o NumberReads(chars, Tail(widths), lo, hi)

(* %d also reads a space followed by one digit 1-9 *)
DayReads(chars) ==
    NumberReads(chars, <<2, 1>>, 1, 31)
    \o (IF Len(chars) >= 2 /\ chars[1] = " " /\ IsDigit(chars[2]) /\ chars[2] # "0"
        THEN <<[val |-> DigitVal(chars[2]), len |-> 2]>> ELSE <<>>)

(* %b (abbreviated, 3 letters) and %B (full) read a month name *)
RECURSIVE MonthReads(_, _, _)
MonthReads(chars, full, k) ==
    IF k > 12 THEN <<>>
    ELSE LET name == IF full THEN MonthNames[k] ELSE SubSeq(MonthNames[k], 1, 3)
         IN (IF StartsWith(LowerAll(chars), name)
             THEN <<[val |-> k, len |-> Len(name)]>> ELSE <<>>)
            \o MonthReads(chars, full, k + 1)

RECURSIVE SpaceReads(_, _)
SpaceReads(chars, k) ==
    IF k > Len(chars) \/ chars[k] # " " THEN <<>>
    ELSE SpaceReads(chars, k + 1) \o <<[val |-> 0, len |-> k]>>

DirectiveReads(tk, chars) ==
    CASE tk = "%Y" -> NumberReads(chars, <<4>>, 0, 9999)
      [] tk = "%y" -> NumberReads(chars, <<2>>, 0, 99)
      [] tk = "%m" -> NumberReads(chars, <<2, 1>>, 1, 12)
      [] tk = "%d" -> DayReads(chars)
      [] tk = "%H" -> NumberReads(chars, <<2>>, 0, 23) \o NumberReads(chars, <<1>>, 0, 9)
      [] tk = "%M" -> NumberReads(chars, <<2>>, 0, 59) \o NumberReads(chars, <<1>>, 0, 9)
      [] tk = "%S" -> NumberReads(chars, <<2>>, 0, 61) \o NumberReads(chars, <<1>>, 0, 9)
      [] tk = "%f" -> NumberReads(chars, <<6, 5, 4, 3, 2, 1>>, 0, 999999)
      [] tk = "%b" -> MonthReads(chars, FALSE, 1)
      [] tk = "%B" -> MonthReads(chars, TRUE, 1)
      [] tk = " " -> SpaceReads(chars, 1)
      [] OTHER -> IF chars # <<>> /\ Lower(chars[1]) = Lower(tk)
                  THEN <<[val |-> 0, len |-> 1]>> ELSE <<>>

SetField_century_2000(acc, tk, val) ==
    CASE tk = "%Y" -> [acc EXCEPT !.Y = val]
      [] tk = "%y" -> [acc EXCEPT !.Y = 2000 + val]
      [] tk \in {"%m", "%b", "%B"} -> [acc EXCEPT !.m = val]
      [] tk = "%d" -> [acc EXCEPT !.d = val]
      [] OTHER -> acc

SetField(acc, tk, val) ==
    CASE tk = "%Y" -> [acc EXCEPT !.Y = val]
      [] tk = "%y" -> [acc EXCEPT !.Y = IF val <= 68 THEN 2000 + val ELSE 1900 + val]
      [] tk \in {"%m", "%b", "%B"} -> [acc EXCEPT !.m = val]
      [] tk = "%d" -> [acc EXCEPT !.d = val]
      [] OTHER -> acc

RECURSIVE MatchFrom(_, _, _)
RECURSIVE MatchEach(_, _, _, _, _)
MatchFrom(tokens, chars, acc) ==
    IF tokens = <<>> THEN <<[date |-> acc, left |-> chars]>>
    ELSE MatchEach(DirectiveReads(Head(tokens), chars), 1, tokens, chars, acc)

MatchEach(reads, k, tokens, chars, acc) ==
    IF k > Len(reads) THEN <<>>
    ELSE MatchFrom(Tail(tokens), SubSeq(chars, reads[k].len + 1, Len(chars)),
                   SetField(acc, Head(tokens), reads[k].val))
         \o MatchEach(reads, k + 1, tokens, chars, acc)

strptime(chars, tokens) ==
    LET found == MatchFrom(tokens, chars, [ok |-> TRUE, Y |-> 1900, m |-> 1, d |-> 1])
    IN IF found = <<>> THEN NoDate                       \* does not match the format
       ELSE IF found[1].left # <<>> THEN NoDate          \* unconverted data remains
       ELSE IF ~ValidDate(found[1].date.Y, found[1].date.m, found[1].date.d) THEN NoDate
       ELSE found[1].date

(* format="ISO8601": any ISO 8601 rendering of a date or date and time *)
ISO8601Shapes ==
    <<FormatTokens("%Y-%m-%d"), FormatTokens("%Y%m%d"),
      FormatTokens("%Y-%m-%dT%H:%M:%S"), FormatTokens("%Y-%m-%d %H:%M:%S"),
      FormatTokens("%Y-%m-%dT%H:%M:%S.%f"), FormatTokens("%Y-%m-%d %H:%M:%S.%f")>>

to_datetime(chars, format) ==
    IF format = "ISO8601"
    THEN LET fits == {k \in 1..Len(ISO8601Shapes) : strptime(chars, ISO8601Shapes[k]).ok}
         IN IF fits = {} THEN NoDate
            ELSE strptime(chars, ISO8601Shapes[CHOOSE k \in fits : \A j \in fits : k <= j])
    ELSE strptime(chars, FormatTokens(format))

(***************************************************************************)
(* CUSTOM_DATE_FORMATS: each code builds the string year-month-day from    *)
(* slices of the value x and parses it with format "%Y-%m-%d".             *)
(***************************************************************************)
CUSTOM_DATE_FORMATS ==
    <<"XMYYYY", "XDXMYYYY", "XMXDYYYY", "DDMMYY", "MMDDYY", "XDXMYY", "XMXDYY">>

Dash(year, month, day) == year \o <<"-">> \o month \o <<"-">> \o day

CustomDateString_day_28(format, x) ==
    IF format \in {"XMYYYY", "XDXMYYYY", "XMXDYYYY"}
    THEN Dash(SliceFrom(x, -4), zfill(SliceTo(x, -4), 2), <<"2", "8">>)
    ELSE Dash(<<"2", "0">> \o SliceFrom(x, -2), zfill(SliceTo(x, -2), 2), <<"2", "8">>)

CustomDateString(format, x) ==
    CASE format = "XMYYYY" ->
           Dash(SliceFrom(x, -4), zfill(SliceTo(x, -4), 2), <<"2", "8">>)
      [] format = "XDXMYYYY" ->
           Dash(SliceFrom(x, -4), zfill(Slice(x, -5, -4), 2),
                OrElse(zfill(SliceTo(x, -5), 2), <<"2", "8">>))
      [] format = "XMXDYYYY" ->
           Dash(SliceFrom(x, -4), zfill(SliceTo(x, -5), 2),
                OrElse(zfill(Slice(x, -5, -4), 2), <<"2", "8">>))
      [] format = "DDMMYY" ->
           Dash(<<"2", "0">> \o SliceFrom(x, -2), Slice(x, 2, 4),
                OrElse(SliceTo(x, 2), <<"2", "8">>))
      [] format = "MMDDYY" ->
           Dash(<<"2", "0">> \o SliceFrom(x, -2), SliceTo(x, 2),
                OrElse(Slice(x, 2, 4), <<"2", "8">>))
      [] format = "XDXMYY" ->
           Dash(<<"2", "0">> \o SliceFrom(x, -2), zfill(Slice(x, -3, -2), 2),
                OrElse(zfill(SliceTo(x, -3), 2), <<"2", "8">>))
      [] OTHER ->
           Dash(<<"2", "0">> \o SliceFrom(x, -2), zfill(SliceTo(x, -3), 2),
                OrElse(zfill(Slice(x, -3, -2), 2), <<"2", "8">>))

(* the code's lambda applied to one cell: a value that is not a string     *)
(* cannot be sliced and raises                                             *)
CustomDate(format, cell) ==
    IF cell.t # "str" THEN NoDate
    ELSE to_datetime(CustomDateString(format, cell.s), "%Y-%m-%d")

(***************************************************************************)
(* strip_separators(value, separators)                                     *)
(***************************************************************************)
RECURSIVE RemoveAll(_, _)
RemoveAll(value_str, separators) ==
    IF separators = <<>> THEN value_str
    ELSE RemoveAll(RemoveChar(value_str, Head(separators)), Tail(separators))

strip_separators(value, separators) ==
    IF value = NA THEN value ELSE StrCell(RemoveAll(PyStr(value), separators))

(***************************************************************************)
(* convert_date_columns(df, data_config).  data_config.date_columns is a   *)
(* record [st, items]: st = "absent" when a key of the path is missing,    *)
(* "notmapping" when the value has no items(); items is the mapping in its *)
(* order, each item [col, date_format, has_separator, separator].  Every   *)
(* assignment df[col_name] = ... changes the passed object.                *)
(***************************************************************************)
(* a stock format: the column parsed and rendered, or the column as it is  *)
(* when a value does not parse (the exception is logged)                   *)
StockColumn(series, format) ==
    LET parsed == [i \in 1..Len(series) |->
                     IF series[i] = NA THEN NoDate
                     ELSE to_datetime(PyStr(series[i]), format)]
    IN IF \E i \in 1..Len(series) : series[i] # NA /\ ~parsed[i].ok THEN series
       ELSE [i \in 1..Len(series) |-> IF series[i] = NA THEN NA ELSE strftime(parsed[i])]

(* a custom code: separators stripped first (and kept stripped when the    *)
(* code then fails on a value), then the code applied to every value       *)
CustomColumn_skips_nulls(series, col_config) ==
    IF \E i \in 1..Len(series) :
         series[i] # NA /\ ~CustomDate(col_config.date_format, series[i]).ok
    THEN series
    ELSE [i \in 1..Len(series) |->
            IF series[i] = NA THEN NA
            ELSE strftime(CustomDate(col_config.date_format, series[i]))]

CustomColumn(series, col_config) ==
    LET stripped == IF col_config.has_separator
                    THEN [i \in 1..Len(series) |->
                            strip_separators(series[i], col_config.separator)]
                    ELSE series
        parsed == [i \in 1..Len(series) |-> CustomDate(col_config.date_format, stripped[i])]
    IN IF \E i \in 1..Len(series) : ~parsed[i].ok THEN stripped
       ELSE [i \in 1..Len(series) |-> strftime(parsed[i])]

ConvertDateColumn(df, col_config) ==
    LET col_name == col_config.col
        format_type == col_config.date_format
    IN IF format_type \in Range(STOCK_DATE_FORMATS)
       THEN IF col_name \notin Range(df.cols) THEN df
            ELSE SetColumn(df, col_name, StockColumn(Column(df, col_name), format_type))
       ELSE IF format_type \in Range(CUSTOM_DATE_FORMATS)
       THEN IF col_name \notin Range(df.cols) THEN df
            ELSE SetColumn(df, col_name, CustomColumn(Column(df, col_name), col_config))
       ELSE df

RECURSIVE ConvertDateColumns_stops_at_unrecognized(_, _)
ConvertDateColumns_stops_at_unrecognized(df, items) ==
    IF items = <<>> THEN df
    ELSE IF Head(items).date_format \notin Range(STOCK_DATE_FORMATS) \cup Range(CUSTOM_DATE_FORMATS)
    THEN df
    ELSE ConvertDateColumns_stops_at_unrecognized(ConvertDateColumn(df, Head(items)),
                                                  Tail(items))

RECURSIVE ConvertDateColumns(_, _)
ConvertDateColumns(df, items) ==
    IF items = <<>> THEN df
    ELSE ConvertDateColumns(ConvertDateColumn(df, Head(items)), Tail(items))

convert_date_columns(df, data_config) ==
    LET date_columns == data_config.date_columns
    IN CASE date_columns.st = "absent" -> Returned(SameObject(df))     \* KeyError, line 118
         [] date_columns.st = "notmapping" -> Raises(df)               \* line 121
         [] OTHER -> Returned(SameObject(ConvertDateColumns(df, date_columns.items)))

(***************************************************************************)
(* pandas: Series.astype(dtype), one cell at a time.  Floats are the       *)
(* fractions n / d in lowest terms.  CastCell gives [ok, cell]: ok = FALSE *)
(* when the cast of that value raises.                                     *)
(***************************************************************************)
RECURSIVE Gcd(_, _)
Gcd(x, y) == IF y = 0 THEN x ELSE Gcd(y, x % y)

Abs(x) == IF x < 0 THEN -x ELSE x

Fraction(num, den) ==
    LET g == Gcd(Abs(num), den) IN FloatCell(num \div g, den \div g)

RECURSIVE Pow10(_)
Pow10(k) == IF k = 0 THEN 1 ELSE 10 * Pow10(k - 1)

Unsigned(chars) == IF chars # <<>> /\ chars[1] \in {"+", "-"} THEN Tail(chars) ELSE chars

Sign(chars) == IF chars # <<>> /\ chars[1] = "-" THEN -1 ELSE 1

(* int("12"), int("-3"): an optional sign and digits *)
IsIntLiteral(chars) == Unsigned(chars) # <<>> /\ AllDigits(Unsigned(chars))

(* float("12"), float("1.5"): digits with at most one decimal point *)
PointAt(chars) == {i \in 1..Len(chars) : chars[i] = "."}

IsFloatLiteral(chars) ==
    LET u == Unsigned(chars)
    IN \/ IsIntLiteral(chars)
       \/ /\ Cardinality(PointAt(u)) = 1
          /\ Len(u) >= 2
          /\ AllDigits(RemoveChar(u, "."))

FloatOfLiteral(chars) ==
    LET u == Unsigned(chars)
        places == IF PointAt(u) = {} THEN 0 ELSE Len(u) - (CHOOSE i \in PointAt(u) : TRUE)
    IN Fraction(Sign(chars) * Num(RemoveChar(u, ".")), Pow10(places))

CastFails == [ok |-> FALSE, cell |-> NA]

CastTo(cell) == [ok |-> TRUE, cell |-> cell]

CastCell(cell, dtype) ==
    CASE dtype = "int" ->
           CASE cell.t = "int" -> CastTo(cell)
             [] cell.t = "bool" -> CastTo(IntCell(cell.n))
             [] cell.t = "float" ->
                  CastTo(IntCell(IF cell.n < 0 THEN -((-cell.n) \div cell.d)
                                 ELSE cell.n \div cell.d))
             [] cell.t = "str" ->
                  IF IsIntLiteral(cell.s)
                  THEN CastTo(IntCell(Sign(cell.s) * Num(Unsigned(cell.s))))
                  ELSE CastFails
             [] OTHER -> CastFails               \* a missing value has no integer
      [] dtype = "float" ->
           CASE cell.t \in {"int", "bool"} -> CastTo(FloatCell(cell.n, 1))
             [] cell.t = "float" -> CastTo(cell)
             [] cell.t = "str" ->
                  IF IsFloatLiteral(cell.s) THEN CastTo(FloatOfLiteral(cell.s))
                  ELSE CastFails
             [] OTHER -> CastTo(NA)              \* NaN is a float
      [] dtype = "str" ->
           IF cell = NA THEN CastTo(StrCell(<<"n", "a", "n">>))
           ELSE CastTo(StrCell(PyStr(cell)))
      [] OTHER -> CastFails                      \* data type not understood

CastColumn(series, dtype) == [i \in 1..Len(series) |-> CastCell(series[i], dtype).cell]

ColumnCasts(df, column, dtype) ==
    /\ column \in Range(df.cols)
    /\ \A i \in 1..Len(df.rows) : CastCell(df.rows[i].v[column], dtype).ok

RECURSIVE CastEach(_, _, _)
CastEach(df, items, only_castable) ==
    IF items = <<>> THEN df
    ELSE LET column == Head(items).col
             dtype == Head(items).dtype
         IN CastEach(IF only_castable /\ ~ColumnCasts(df, column, dtype) THEN df
                     ELSE SetColumn(df, column, CastColumn(Column(df, column), dtype)),
                     Tail(items), only_castable)

(* lines 26-39: df.astype(dtype_map) gives a new DataFrame; when it raises *)
(* the columns are cast one by one in df itself, a failing one left as is  *)
astype_without_fallback(df, dtype_map) ==
    IF \A k \in 1..Len(dtype_map) : ColumnCasts(df, dtype_map[k].col, dtype_map[k].dtype)
    THEN NewObject(CastEach(df, dtype_map, FALSE), df)
    ELSE SameObject(df)

astype_with_fallback(df, dtype_map) ==
    IF \A k \in 1..Len(dtype_map) : ColumnCasts(df, dtype_map[k].col, dtype_map[k].dtype)
    THEN NewObject(CastEach(df, dtype_map, FALSE), df)
    ELSE SameObject(CastEach(df, dtype_map, TRUE))

(***************************************************************************)
(* convert_columns_dtype(df, data_config).  data_config.dtype is a record  *)
(* [st, items]: st = "absent" when a key of the path configuration /       *)
(* attributes / dtype is missing; items is the mapping, each item          *)
(* [col, dtype].  The result also lists, in calls, the calls made inside:  *)
(* convert_date_columns and the cast, each with the DataFrame it received  *)
(* and the one it gave.                                                    *)
(***************************************************************************)
CallEntry(stage, in, res) ==
    [stage |-> stage, in |-> in, out |-> res.ret, raised |-> res.raised]

WithCalls(res, calls) ==
    [ret |-> res.ret, obj |-> res.obj, same |-> res.same, raised |-> res.raised,
     calls |-> calls]

(* lines 26-41, once convert_date_columns has returned dates *)
CastAndLog(df, dates, cast) ==
    WithCalls(cast, <<CallEntry("convert_date_columns", df, dates),
                      CallEntry("astype", dates.ret, cast)>>)

CoerceAfterDates(df, dates, dtype_map) ==
    IF dates.raised
    THEN WithCalls(Raises(dates.obj), <<CallEntry("convert_date_columns", df, dates)>>)  \* line 46
    ELSE CastAndLog(df, dates, Returned(astype_with_fallback(dates.ret, dtype_map)))

convert_columns_dtype(df, data_config) ==
    IF data_config.dtype.st = "absent"
    THEN WithCalls(Returned(SameObject(df)), <<>>)                 \* KeyError, line 43
    ELSE CoerceAfterDates(df, convert_date_columns(df, data_config), data_config.dtype.items)

(***************************************************************************)
(* Column types and statistics of pandas, from the cells: a column is      *)
(* numeric (int64 or float64) when it has rows and every cell is a number  *)
(* or missing, and int64 when every cell is an integer.                    *)
(***************************************************************************)
IsNull(cell) == cell.t = "null"

NullCount(series) == Cardinality({i \in 1..Len(series) : IsNull(series[i])})

IsNumericColumn(series) ==
    Len(series) > 0 /\ \A i \in 1..Len(series) : series[i].t \in {"int", "float", "null"}

IsIntColumn(series) ==
    Len(series) > 0 /\ \A i \in 1..Len(series) : series[i].t = "int"

NotNull(series) == SelectSeq(series, LAMBDA c : ~IsNull(c))

AddCells(x, y) == Fraction(x.n * y.d + y.n * x.d, x.d * y.d)

RECURSIVE SumCells(_)
SumCells(series) ==
    IF series = <<>> THEN FloatCell(0, 1) ELSE AddCells(Head(series), SumCells(Tail(series)))

(* Series.mean(): the mean of the values that are not missing, NaN if none *)
mean(series) ==
    LET vals == NotNull(series)
    IN IF vals = <<>> THEN NA
       ELSE Fraction(SumCells(vals).n, SumCells(vals).d * Len(vals))

LessNum(x, y) == x.n * y.d < y.n * x.d

(* the k-th smallest of the values (1-based), by LessNum *)
KthSmallest(vals, k) ==
    LET i == CHOOSE i \in 1..Len(vals) :
               /\ Cardinality({j \in 1..Len(vals) : LessNum(vals[j], vals[i])}) < k
               /\ Cardinality({j \in 1..Len(vals) : ~LessNum(vals[i], vals[j])}) >= k
    IN vals[i]

(* Series.median() *)
median(series) ==
    LET vals == NotNull(series)
        n == Len(vals)
    IN IF n = 0 THEN NA
       ELSE IF n % 2 = 1 THEN Fraction(KthSmallest(vals, (n + 1) \div 2).n,
                                       KthSmallest(vals, (n + 1) \div 2).d)
       ELSE LET two == AddCells(KthSmallest(vals, n \div 2), KthSmallest(vals, n \div 2 + 1))
            IN Fraction(two.n, two.d * 2)

(* round(x): to the nearest integer, a half to the even one *)
round(x) ==
    LET floor == IF x.n >= 0 THEN x.n \div x.d ELSE -((-x.n + x.d - 1) \div x.d)
        twice == 2 * (x.n - floor * x.d)
    IN IntCell(IF twice < x.d THEN floor
               ELSE IF twice > x.d THEN floor + 1
               ELSE IF floor % 2 = 0 THEN floor ELSE floor + 1)

fillna(series, fill_value) ==
    [i \in 1..Len(series) |-> IF IsNull(series[i]) THEN fill_value ELSE series[i]]

(* fillna(method="ffill"): the last value before; "bfill": the next after *)
ffill(series) ==
    [i \in 1..Len(series) |->
       IF ~IsNull(series[i]) \/ \A j \in 1..i : IsNull(series[j]) THEN series[i]
       ELSE series[CHOOSE j \in 1..i : ~IsNull(series[j])
                                       /\ \A k \in (j + 1)..i : IsNull(series[k])]]

bfill(series) ==
    [i \in 1..Len(series) |->
       IF ~IsNull(series[i]) \/ \A j \in i..Len(series) : IsNull(series[j]) THEN series[i]
       ELSE series[CHOOSE j \in i..Len(series) : ~IsNull(series[j])
                                                 /\ \A k \in i..(j - 1) : IsNull(series[k])]]

(* the order of the characters (ASCII) and of strings *)
CharOrder ==
    <<" ", "+", ",", "-", ".", "/">> \o Digits \o <<":">> \o UpperLetters \o LowerLetters

CharRank(c) == IF c \in Range(CharOrder) THEN CHOOSE i \in 1..Len(CharOrder) : CharOrder[i] = c
               ELSE 0

RECURSIVE LessStr(_, _)
LessStr(x, y) ==
    IF y = <<>> THEN FALSE
    ELSE IF x = <<>> THEN TRUE
    ELSE IF CharRank(Head(x)) # CharRank(Head(y)) THEN CharRank(Head(x)) < CharRank(Head(y))
    ELSE LessStr(Tail(x), Tail(y))

LessCell(x, y) ==
    IF x.t = "str" /\ y.t = "str" THEN LessStr(x.s, y.s)
    ELSE IF x.t = "str" \/ y.t = "str" THEN x.t # "str"
    ELSE LessNum(x, y)

(* Series.mode(): the most frequent values that are not missing, sorted;   *)
(* the sequence is empty when every value is missing                       *)
(* the values of a numeric column are compared as numbers: 1 and 1.0 are   *)
(* one value                                                               *)
SameValue(x, y) ==
    \/ x = y
    \/ x.t \in {"int", "float"} /\ y.t \in {"int", "float"} /\ x.n * y.d = y.n * x.d

Occurrences(vals, cell) == Cardinality({i \in 1..Len(vals) : SameValue(vals[i], cell)})

mode(series) ==
    LET vals == NotNull(series)
        modes == {c \in Range(vals) : \A e \in Range(vals) :
                                        Occurrences(vals, e) <= Occurrences(vals, c)}
    IN IF modes = {} THEN <<>>
       ELSE <<CHOOSE c \in modes : \A e \in modes : ~LessCell(e, c)>>

DropColumns_reversed(df, dropped) ==
    [cols |-> [k \in 1..Len(SelectSeq(df.cols, LAMBDA c : c \notin dropped)) |->
                 SelectSeq(df.cols, LAMBDA c : c \notin dropped)
                   [Len(SelectSeq(df.cols, LAMBDA c : c \notin dropped)) + 1 - k]],
     rows |-> [i \in 1..Len(df.rows) |->
                 [idx |-> df.rows[i].idx,
                  v |-> [c \in Range(df.cols) \ dropped |-> df.rows[i].v[c]]]]]

DropColumns(df, dropped) ==
    [cols |-> SelectSeq(df.cols, LAMBDA c : c \notin dropped),
     rows |-> [i \in 1..Len(df.rows) |->
                 [idx |-> df.rows[i].idx,
                  v |-> [c \in Range(df.cols) \ dropped |-> df.rows[i].v[c]]]]]

(***************************************************************************)
(* handle_missing_values(df, config_file).  config_file.missing_values is  *)
(* a record [st, method, subset, drop_all_nulls, null_threshold]: st is    *)
(* "full" when the four keys can be read; otherwise the KeyError is caught *)
(* by the outer handler (line 98) and df is returned as it is.  dropna and *)
(* drop give a new DataFrame; df[col] = ... changes the DataFrame that df  *)
(* is bound to at that point.  The function never raises.                  *)
(***************************************************************************)
AllNullColumns(df) ==
    {c \in Range(df.cols) : \A i \in 1..Len(df.rows) : IsNull(df.rows[i].v[c])}

(***************************************************************************)
(* float64 arithmetic of line 49, (df.isnull().sum() / len(df)) * 100, and *)
(* the comparison of line 50.  A positive float64 is a record [m, e]: m    *)
(* the 53 bits of its significand, lowest bit first, and e the exponent,   *)
(* the value being m * 2^e.  Division and multiplication give the exact    *)
(* result rounded to 53 bits, ties to the even significand.                *)
(***************************************************************************)
SignificandBits == 53

RECURSIVE NatBits(_)
NatBits(k) == IF k = 0 THEN <<>> ELSE <<k % 2>> \o NatBits(k \div 2)

Reverse(bits) == [i \in 1..Len(bits) |-> bits[Len(bits) + 1 - i]]

ShiftLeft(bits, j) == [i \in 1..j |-> 0] \o bits

BitAt(bits) == IF bits = <<>> THEN 0 ELSE Head(bits)

Rest(bits) == IF bits = <<>> THEN <<>> ELSE Tail(bits)

RECURSIVE AddBits(_, _, _)
AddBits(a, b, carry) ==
    IF a = <<>> /\ b = <<>> THEN (IF carry = 1 THEN <<1>> ELSE <<>>)
    ELSE <<(BitAt(a) + BitAt(b) + carry) % 2>>
         \o AddBits(Rest(a), Rest(b), (BitAt(a) + BitAt(b) + carry) \div 2)

RECURSIVE TimesBits(_, _)
TimesBits(a, b) ==
    IF b = <<>> THEN <<>>
    ELSE AddBits(IF Head(b) = 1 THEN a ELSE <<>>, <<0>> \o TimesBits(a, Tail(b)), 0)

(* a and b without leading zeros *)
GreaterBits(a, b) ==
    IF Len(a) # Len(b) THEN Len(a) > Len(b)
    ELSE \E i \in 1..Len(a) :
           /\ a[i] = 1 /\ b[i] = 0
           /\ \A j \in (i + 1)..Len(a) : a[j] = b[j]

(* the significand after rounding: one more bit than 53 is a power of two *)
Rounded(kept, up, e) ==
    IF ~up THEN [m |-> kept, e |-> e]
    ELSE IF Len(AddBits(kept, <<1>>, 0)) > SignificandBits
    THEN [m |-> Tail(AddBits(kept, <<1>>, 0)), e |-> e + 1]
    ELSE [m |-> AddBits(kept, <<1>>, 0), e |-> e]

(* the bits of r / n after the binary point, highest first, for r < n: the *)
(* first need of them, followed by the remainder left                      *)
RECURSIVE Expand(_, _, _)
Expand(r, n, need) ==
    IF need = 0 THEN <<r>>
    ELSE IF 2 * r >= n THEN <<1>> \o Expand(2 * r - n, n, need - 1)
    ELSE <<0>> \o Expand(2 * r, n, need - 1)

RECURSIVE LeadingZeros(_, _)
LeadingZeros(r, n) == IF 2 * r >= n THEN 0 ELSE 1 + LeadingZeros(2 * r, n)

DivRounded(x, z, n) ==
    Rounded(Reverse(SubSeq(x, z + 1, z + SignificandBits)),
            \/ 2 * x[z + SignificandBits + 1] > n
            \/ 2 * x[z + SignificandBits + 1] = n /\ x[z + SignificandBits] = 1,
            -(z + SignificandBits))

(* k / n for 0 < k <= n *)
float_div(k, n) ==
    IF k = n THEN [m |-> ShiftLeft(<<1>>, SignificandBits - 1), e |-> -(SignificandBits - 1)]
    ELSE DivRounded(Expand(k, n, LeadingZeros(k, n) + SignificandBits), LeadingZeros(k, n), n)

MulRounded(product, dropped, e) ==
    Rounded(SubSeq(product, dropped + 1, Len(product)),
            /\ dropped > 0
            /\ product[dropped] = 1
            /\ \/ \E i \in 1..(dropped - 1) : product[i] = 1
               \/ product[dropped + 1] = 1,
            e + dropped)

(* x * c for a float64 x and a positive integer c *)
float_mul(x, c) ==
    MulRounded(TimesBits(x.m, NatBits(c)),
               Len(TimesBits(x.m, NatBits(c))) - SignificandBits, x.e)

(* x > t for a float64 x with negative exponent and a positive integer t *)
float_gt(x, t) == GreaterBits(x.m, ShiftLeft(NatBits(t), -x.e))

(* nulls / rows * 100 > null_threshold *)
PercentageOver(nulls, rows, null_threshold) ==
    IF nulls = 0 THEN 0 > null_threshold
    ELSE IF null_threshold <= 0 THEN TRUE
    ELSE float_gt(float_mul(float_div(nulls, rows), 100), null_threshold)

(* null_percentages > null_threshold; with no rows every percentage is NaN *)
OverThresholdColumns(df, null_threshold) ==
    {c \in Range(df.cols) :
       /\ Len(df.rows) > 0
       /\ PercentageOver(NullCount(Column(df, c)), Len(df.rows), null_threshold)}

NumericColumns(df) == SelectSeq(df.cols, LAMBDA c : IsNumericColumn(Column(df, c)))

MeanFill(series) ==
    IF mean(series) = NA THEN series
    ELSE fillna(series, IF IsIntColumn(series) THEN round(mean(series)) ELSE mean(series))

MedianFill(series) ==
    IF median(series) = NA THEN series ELSE fillna(series, median(series))

MethodFill(series, method) ==
    CASE method = "mean" -> MeanFill(series)
      [] method = "median" -> MedianFill(series)
      [] method = "ffill" -> ffill(series)
      [] method = "bfill" -> bfill(series)
      [] OTHER -> series

RECURSIVE FillNumeric(_, _, _)
FillNumeric(df, numeric_cols, method) ==
    IF numeric_cols = <<>> THEN df
    ELSE FillNumeric(SetColumn(df, Head(numeric_cols),
                               MethodFill(Column(df, Head(numeric_cols)), method)),
                     Tail(numeric_cols), method)

(* lines 89-95: df[col].dtype == 'number' is false for every dtype, so the *)
(* fill value is df[col].mode()[0]; a column that is not there, or has no  *)
(* mode, raises inside the loop's try and is skipped                       *)
RECURSIVE FillSubset_stops_at_failure(_, _)
FillSubset_stops_at_failure(df, subset) ==
    IF subset = <<>> THEN df
    ELSE IF Head(subset) \notin Range(df.cols) THEN df
    ELSE IF mode(Column(df, Head(subset))) = <<>> THEN df
    ELSE FillSubset_stops_at_failure(
           SetColumn(df, Head(subset), fillna(Column(df, Head(subset)),
                                              mode(Column(df, Head(subset)))[1])),
           Tail(subset))

RECURSIVE FillSubset(_, _)
FillSubset(df, subset) ==
    IF subset = <<>> THEN df
    ELSE LET col == Head(subset)
         IN FillSubset(IF col \notin Range(df.cols) THEN df
                       ELSE IF mode(Column(df, col)) = <<>> THEN df
                       ELSE SetColumn(df, col, fillna(Column(df, col),
                                                      mode(Column(df, col))[1])),
                       Tail(subset))

handle_missing_values_needs_no_key(df, config_file) ==
    LET mv == config_file.missing_values
        after_all_nulls == IF mv.drop_all_nulls THEN DropColumns(df, AllNullColumns(df))
                           ELSE df
        after_threshold == IF mv.null_threshold # 0
                           THEN DropColumns(after_all_nulls,
                                            OverThresholdColumns(after_all_nulls,
                                                                 mv.null_threshold))
                           ELSE after_all_nulls
        numeric_cols == NumericColumns(after_threshold)
        filled == FillSubset(FillNumeric(after_threshold, numeric_cols, mv.method),
                             mv.subset)
    IN IF mv.st = "absent" THEN Returned(SameObject(df))
       ELSE IF mv.drop_all_nulls \/ mv.null_threshold # 0
       THEN Returned(NewObject(filled, df))
       ELSE Returned(SameObject(filled))

handle_missing_values(df, config_file) ==
    LET mv == config_file.missing_values
        after_all_nulls == IF mv.drop_all_nulls THEN DropColumns(df, AllNullColumns(df))
                           ELSE df
        after_threshold == IF mv.null_threshold # 0
                           THEN DropColumns(after_all_nulls,
                                            OverThresholdColumns(after_all_nulls,
                                                                 mv.null_threshold))
                           ELSE after_all_nulls
        numeric_cols == NumericColumns(after_threshold)
        filled == FillSubset(FillNumeric(after_threshold, numeric_cols, mv.method),
                             mv.subset)
    IN IF mv.st # "full" THEN Returned(SameObject(df))
       ELSE IF mv.drop_all_nulls \/ mv.null_threshold # 0
       THEN Returned(NewObject(filled, df))
       ELSE Returned(SameObject(filled))

(***************************************************************************)
(* State.                                                                  *)
(* One invocation of preprocess(df, data_config):                          *)
(*   pc          the stage preprocess is about to call, "done" once it has *)
(*               returned df, "raised" once it has raised                  *)
(*   df          preprocess's local variable df                            *)
(*   data_config its argument data_config                                  *)
(*   table       the caller's DataFrame as it was when preprocess was      *)
(*               called                                                    *)
(*   caller_df   the caller's DataFrame object as it is now                *)
(*   aliased     whether df is still that object                           *)
(*   trace       the calls made so far, in order, each with the DataFrame  *)
(*               it received and the one it gave                           *)
(* d_* : a caller of handle_duplicates (the resolver used on its own):     *)
(* d_df is the DataFrame passed to the last call (before it), d_args the   *)
(* call's arguments, d_res what the call gave, d_again what the same call  *)
(* gives when it is repeated on the returned DataFrame.                    *)
(* s_* : a caller of one stage function on its own (replace_values,        *)
(* convert_date_columns, convert_columns_dtype or handle_missing_values):  *)
(* s_df is the DataFrame passed, s_config the configuration passed, s_res  *)
(* what the call gave, s_pc "ready" before the call and "returned" or      *)
(* "raised" after it.                                                      *)
(* registry : the module-level STOCK_DATE_FORMATS and CUSTOM_DATE_FORMATS  *)
(* of date_handler, the one state every invocation shares.                 *)
(* inv : invocations of preprocess running side by side, each with its own *)
(* pc, local df, configuration and table.                                  *)
(***************************************************************************)
VARIABLES pc, df, data_config, table, caller_df, aliased, trace,
          d_pc, d_df, d_args, d_res, d_again,
          s_pc, s_df, s_config, s_res,
          registry, inv

pvars == <<pc, df, data_config, table, caller_df, aliased, trace>>

dvars == <<d_pc, d_df, d_args, d_res, d_again>>

svars == <<s_pc, s_df, s_config, s_res>>

cvars == <<registry, inv>>

vars == <<pvars, dvars, svars, cvars>>

(***************************************************************************)
(* Inputs: every table of at most maxlen rows over the given columns and   *)
(* cell values; index labels are the positions 1..n of a fresh DataFrame.  *)
(***************************************************************************)
MakeTable(colseq, rs) ==
    [cols |-> colseq, rows |-> [i \in 1..Len(rs) |-> [idx |-> i, v |-> rs[i]]]]

TablesOver(colseq, cells, maxlen) ==
    UNION {{MakeTable(colseq, rs) : rs \in [1..n -> [Range(colseq) -> cells]]} :
             n \in 0..maxlen}

(***************************************************************************)
(* The configuration document.  kind is "None" when preprocess is called   *)
(* without data_config, "empty" for an empty dict (false in "if            *)
(* data_config"), "dict" otherwise; the other fields are the four          *)
(* configuration paths as the stages read them.                            *)
(***************************************************************************)
NoCall == [ret |-> MakeTable(<<>>, <<>>), obj |-> MakeTable(<<>>, <<>>), same |-> FALSE]

AbsentPath == [st |-> "absent", entries |-> <<>>]

AbsentItems == [st |-> "absent", items |-> <<>>]

AbsentMissingValues ==
    [st |-> "absent", method |-> "", subset |-> <<>>, drop_all_nulls |-> FALSE,
     null_threshold |-> 0]

ConfigOf(kind, rv, dc, dt, mv) ==
    [kind |-> kind, replace_values |-> rv, date_columns |-> dc, dtype |-> dt,
     missing_values |-> mv]

NoConfig == ConfigOf("None", AbsentPath, AbsentItems, AbsentItems, AbsentMissingValues)

EmptyConfig == ConfigOf("empty", AbsentPath, AbsentItems, AbsentItems, AbsentMissingValues)

Str1 == StrCell(<<"1">>)

StrX == StrCell(<<"x">>)

Str122023 == StrCell(<<"1", "2", "2", "0", "2", "3">>)

ReplaceValuesChoices ==
    {AbsentPath,
     [st |-> "list", entries |-> <<>>],
     [st |-> "list",
      entries |-> <<[column_name |-> "a", values_to_replace |-> <<StrX>>,
                     values_to_replace_with |-> <<Str1>>]>>]}

DateColumn(col, format) ==
    [col |-> col, date_format |-> format, has_separator |-> FALSE, separator |-> <<>>]

DateColumnsChoices ==
    {AbsentItems,
     [st |-> "notmapping", items |-> <<>>],
     [st |-> "map", items |-> <<DateColumn("d", "XMYYYY")>>],
     [st |-> "map", items |-> <<DateColumn("d", "banana")>>]}

DtypeChoices ==
    {AbsentItems, [st |-> "map", items |-> <<[col |-> "a", dtype |-> "float"]>>]}

MissingValuesChoices ==
    {AbsentMissingValues,
     [st |-> "full", method |-> "mean", subset |-> <<>>, drop_all_nulls |-> TRUE,
      null_threshold |-> 0],
     [st |-> "full", method |-> "ffill", subset |-> <<"d">>, drop_all_nulls |-> FALSE,
      null_threshold |-> 50]}

Configs ==
    {NoConfig, EmptyConfig}
    \cup {ConfigOf("dict", rv, dc, dt, mv) :
            rv \in ReplaceValuesChoices, dc \in DateColumnsChoices,
            dt \in DtypeChoices, mv \in MissingValuesChoices}

PipeCols == <<"a", "d">>

PipeRowChoices ==
    {[c \in Range(PipeCols) |-> IF c = "a" THEN x ELSE y] :
       x \in {Str1, StrX, NA}, y \in {Str122023, NA}}

PipeTables ==
    UNION {{MakeTable(PipeCols, rs) : rs \in [1..n -> PipeRowChoices]} :
             n \in 0..MaxPipeRows}

(* the registry as date_handler defines it when the module is loaded *)
Registry ==
    [STOCK_DATE_FORMATS |-> STOCK_DATE_FORMATS, CUSTOM_DATE_FORMATS |-> CUSTOM_DATE_FORMATS]

NotInvoked ==
    [pc |-> "idle", df |-> MakeTable(<<>>, <<>>), config |-> NoConfig,
     table |-> MakeTable(<<>>, <<>>)]

(* the parts of the state a specification does not use *)
ParIdle ==
    /\ registry = Registry
    /\ inv = [p \in 1..Invocations |-> NotInvoked]

StageIdle ==
    /\ s_pc = "unused"
    /\ s_df = MakeTable(<<>>, <<>>)
    /\ s_config = NoConfig
    /\ s_res = NoCall

DupIdle ==
    /\ d_pc = "unused"
    /\ d_df = MakeTable(<<>>, <<>>)
    /\ d_args = [case |-> "remove", subset |-> NoSubset, keep |-> "first", inplace |-> FALSE]
    /\ d_res = NoCall
    /\ d_again = NoCall

PipelineIdle ==
    /\ pc = "idle"
    /\ df = MakeTable(<<>>, <<>>)
    /\ data_config = NoConfig
    /\ table = MakeTable(<<>>, <<>>)
    /\ caller_df = MakeTable(<<>>, <<>>)
    /\ aliased = FALSE
    /\ trace = <<>>

Init ==
    /\ ParIdle
    /\ StageIdle
    /\ pc = "handle_duplicates"
    /\ table \in PipeTables
    /\ df = table
    /\ caller_df = table
    /\ aliased = TRUE
    /\ data_config \in Configs
    /\ trace = <<>>
    /\ d_pc = "unused"
    /\ d_df = MakeTable(<<>>, <<>>)
    /\ d_args = [case |-> "remove", subset |-> NoSubset, keep |-> "first", inplace |-> FALSE]
    /\ d_res = NoCall
    /\ d_again = NoCall

(***************************************************************************)
(* preprocess(df, data_config), one action per stage it calls.  A stage    *)
(* that returns rebinds df; a stage that raises ends the invocation (the   *)
(* handler at line 72 logs and raises again).                              *)
(***************************************************************************)
Stage_returns_after_raise(res, next) ==
    /\ pc' = next
    /\ df' = res.ret
    /\ caller_df' = IF aliased THEN res.obj ELSE caller_df
    /\ aliased' = (aliased /\ res.same)
    /\ trace' = trace \o res.calls
    /\ UNCHANGED <<data_config, table, dvars, svars, cvars>>

Stage(res, next) ==
    /\ pc' = IF res.raised THEN "raised" ELSE next
    /\ df' = IF res.raised THEN res.obj ELSE res.ret
    /\ caller_df' = IF aliased THEN res.obj ELSE caller_df
    /\ aliased' = (aliased /\ res.same)
    /\ trace' = trace \o res.calls
    /\ UNCHANGED <<data_config, table, dvars, svars, cvars>>

Logged(stage, in, res) == WithCalls(res, <<CallEntry(stage, in, res)>>)

(* a stage that makes calls of its own: those calls, then the stage *)
LoggedAfter(stage, in, res) == WithCalls(res, res.calls \o <<CallEntry(stage, in, res)>>)

DefaultHandleDuplicates_keep_last(t) ==
    Returned(handle_duplicates(t, "remove", NoSubset, "last", FALSE))

(* line 54: handle_duplicates(df) with the defaults of its signature *)
DefaultHandleDuplicates(t) == Returned(handle_duplicates(t, "remove", NoSubset, "first", FALSE))

(* line 56: if data_config *)
ConfigGiven(config) == config.kind = "dict"

HandleDuplicates ==
    /\ pc = "handle_duplicates"
    /\ Stage(Logged("handle_duplicates", df, DefaultHandleDuplicates(df)),
             IF ConfigGiven(data_config) THEN "replace_values" ELSE "done")

ReplaceValues ==
    /\ pc = "replace_values"
    /\ Stage(Logged("replace_values", df, replace_values(df, data_config)),
             "convert_columns_dtype")

ConvertColumnsDtype ==
    /\ pc = "convert_columns_dtype"
    /\ Stage(LoggedAfter("convert_columns_dtype", df, convert_columns_dtype(df, data_config)),
             "handle_missing_values")

HandleMissingValues ==
    /\ pc = "handle_missing_values"
    /\ Stage(Logged("handle_missing_values", df, handle_missing_values(df, data_config)),
             "done")

Next == HandleDuplicates \/ ReplaceValues \/ ConvertColumnsDtype \/ HandleMissingValues

Spec == Init /\ [][Next]_vars

(***************************************************************************)
(* A stage function called on its own.  CallStage records what the call    *)
(* gave; each specification below draws the table and the configuration    *)
(* of one stage from its pools and makes the one call.                     *)
(***************************************************************************)
CallStage(res) ==
    /\ s_pc = "ready"
    /\ s_pc' = IF res.raised THEN "raised" ELSE "returned"
    /\ s_res' = res
    /\ UNCHANGED <<s_df, s_config, pvars, dvars, cvars>>

(* replace_values(df, data_config) *)
StrY == StrCell(<<"y">>)

RepCols == <<"a", "b">>

RepCells == {StrX, Str1, NA}

Directive(column_name, values_to_replace, values_to_replace_with) ==
    [column_name |-> column_name, values_to_replace |-> values_to_replace,
     values_to_replace_with |-> values_to_replace_with]

FirstDirectives ==
    {Directive(c, v, w) : c \in {"a", "b", "zz"},
                          v \in {<<>>, <<StrX>>, <<StrX, Str1>>},
                          w \in {<<>>, <<Str1>>, <<StrY, StrX>>}}

FurtherDirectives == {Directive("a", <<Str1>>, <<StrY>>), Directive("b", <<StrX>>, <<StrY>>)}

RepConfigs ==
    {ConfigOf("dict", rv, AbsentItems, AbsentItems, AbsentMissingValues) :
       rv \in {AbsentPath, [st |-> "list", entries |-> <<>>]}
              \cup {[st |-> "list", entries |-> <<e>>] : e \in FirstDirectives}
              \cup {[st |-> "list", entries |-> <<e, f>>] :
                      e \in FirstDirectives, f \in FurtherDirectives}}

InitRep ==
    /\ ParIdle
    /\ PipelineIdle
    /\ DupIdle
    /\ s_pc = "ready"
    /\ s_df \in TablesOver(RepCols, RepCells, MaxStageRows)
    /\ s_config \in RepConfigs
    /\ s_res = NoCall

CallReplaceValues ==
    /\ s_pc = "ready"
    /\ CallStage(replace_values(s_df, s_config))

SpecRep == InitRep /\ [][CallReplaceValues]_vars

(***************************************************************************)
(* convert_date_columns(df, data_config) called on its own.  DateCalls is  *)
(* the pool of calls: tables of two date columns d and e with one or both  *)
(* configured, in either order.                                            *)
(***************************************************************************)
Chars122023 == <<"1", "2", "2", "0", "2", "3">>

CharsUS == <<"1", "2", "/", "3", "1", "/", "2", "0", "2", "3">>

CharsDashed == <<"1", "2", "-", "2", "0", "2", "3">>

CharsBad == <<"x", "-", "y">>

DateConfig(items) ==
    ConfigOf("dict", AbsentPath, [st |-> "map", items |-> items], AbsentItems,
             AbsentMissingValues)

DateColumnWith(col, format, separator) ==
    [col |-> col, date_format |-> format, has_separator |-> TRUE, separator |-> separator]

(* "" stands for an entry without date_format: .get gives None *)
ColumnDConfigs ==
    {DateColumn("d", f) : f \in {"%m/%d/%Y", "XMYYYY", "banana", ""}}
    \cup {DateColumnWith("d", f, <<"-">>) : f \in {"%m/%d/%Y", "XMYYYY", "banana", ""}}

ColumnEConfigs == {DateColumn("e", "%m/%d/%Y"), DateColumn("e", "banana")}

DateItems ==
    {<<x>> : x \in ColumnDConfigs \cup ColumnEConfigs}
    \cup {<<x, y>> : x \in ColumnDConfigs, y \in ColumnEConfigs}
    \cup {<<y, x>> : x \in ColumnDConfigs, y \in ColumnEConfigs}

DateRowChoices ==
    {[c \in {"d", "e"} |-> IF c = "d" THEN x ELSE y] :
       x \in {StrCell(CharsUS), StrCell(Chars122023), StrCell(CharsDashed), StrCell(CharsBad),
              NA},
       y \in {StrCell(CharsUS), NA}}

DateTables ==
    UNION {{MakeTable(<<"d", "e">>, rs) : rs \in [1..n -> DateRowChoices]} :
             n \in 0..MaxStageRows}

ColumnCalls == {[df |-> t, config |-> DateConfig(items)] : t \in DateTables, items \in DateItems}

(* Single values: a table of one column d and one row, and one entry for  *)
(* d.  PoolDates are the calendar dates the values are written from.       *)
ValueCall(chars, format) ==
    [df |-> MakeTable(<<"d">>, <<[c \in {"d"} |-> StrCell(chars)]>>),
     config |-> DateConfig(<<DateColumn("d", format)>>)]

Pad2(k) == ZeroPad(NatChars(k), 2)

Pad4(k) == ZeroPad(NatChars(k), 4)

PoolDates(years) ==
    {date \in [Y : years, m : {1, 9, 12}, d : {1, 9, 28, 31}] :
       date.d <= DaysIn(date.Y, date.m)}

(* a date written the way a custom code lays it out: the leading field in  *)
(* one or two digits (padded), a middle field of the X codes in one digit  *)
Layout(code, date, padded) ==
    LET lead(k) == IF padded THEN Pad2(k) ELSE NatChars(k)
        yy == Pad2(date.Y % 100)
    IN CASE code = "XMYYYY" -> lead(date.m) \o Pad4(date.Y)
         [] code = "XDXMYYYY" -> lead(date.d) \o NatChars(date.m) \o Pad4(date.Y)
         [] code = "XMXDYYYY" -> lead(date.m) \o NatChars(date.d) \o Pad4(date.Y)
         [] code = "DDMMYY" -> Pad2(date.d) \o Pad2(date.m) \o yy
         [] code = "MMDDYY" -> Pad2(date.m) \o Pad2(date.d) \o yy
         [] code = "XDXMYY" -> lead(date.d) \o NatChars(date.m) \o yy
         [] OTHER -> lead(date.m) \o NatChars(date.d) \o yy

(* the dates a code can lay out: one digit for the middle field *)
Fits(code, date) ==
    CASE code \in {"XDXMYYYY", "XDXMYY"} -> date.m <= 9
      [] code \in {"XMXDYYYY", "XMXDYY"} -> date.d <= 9
      [] OTHER -> TRUE

CustomCalls ==
    UNION {{ValueCall(Layout(code, date, padded), code) :
              date \in {x \in PoolDates({2000, 2023, 9999}) : Fits(code, x)},
              padded \in BOOLEAN} :
           code \in Range(CUSTOM_DATE_FORMATS)}

(* a month and a year with no day, for the codes that have a day field *)
DayCodes == {"XDXMYYYY", "XMXDYYYY", "DDMMYY", "MMDDYY", "XDXMYY", "XMXDYY"}

MonthYear(code, date) ==
    CASE code \in {"XDXMYYYY", "XMXDYYYY"} -> NatChars(date.m) \o Pad4(date.Y)
      [] code \in {"XDXMYY", "XMXDYY"} -> NatChars(date.m) \o Pad2(date.Y % 100)
      [] OTHER -> Pad2(date.m) \o Pad2(date.Y % 100)

DayAbsentCalls ==
    {ValueCall(MonthYear(code, date), code) :
       code \in DayCodes, date \in [Y : {2000, 2023}, m : {1, 9}]}

(* A calendar date written in a stock format, as strftime writes it: the   *)
(* numbers zero-padded, the month names capitalised, and for the formats   *)
(* that carry a time of day the time 23:59:59.999999.                      *)
Capital(name) ==
    <<UpperLetters[CHOOSE i \in 1..26 : LowerLetters[i] = name[1]]>> \o Tail(name)

RenderToken(tk, date) ==
    CASE tk = "%Y" -> Pad4(date.Y)
      [] tk = "%y" -> Pad2(date.Y % 100)
      [] tk = "%m" -> Pad2(date.m)
      [] tk = "%d" -> Pad2(date.d)
      [] tk = "%b" -> Capital(SubSeq(MonthNames[date.m], 1, 3))
      [] tk = "%B" -> Capital(MonthNames[date.m])
      [] tk = "%H" -> <<"2", "3">>
      [] tk \in {"%M", "%S"} -> <<"5", "9">>
      [] tk = "%f" -> <<"9", "9", "9", "9", "9", "9">>
      [] OTHER -> <<tk>>

RECURSIVE RenderTokens(_, _)
RenderTokens(tokens, date) ==
    IF tokens = <<>> THEN <<>>
    ELSE RenderToken(Head(tokens), date) \o RenderTokens(Tail(tokens), date)

(* the renderings of a date in a stock format: one for a strftime format,  *)
(* one for every shape of "ISO8601"                                        *)
Renderings(format, date) ==
    IF format = "ISO8601"
    THEN {RenderTokens(ISO8601Shapes[k], date) : k \in 1..Len(ISO8601Shapes)}
    ELSE {RenderTokens(FormatTokens(format), date)}

StockYears == {1600, 1950, 1969, 2023, 2068, 2069}

StockCalls ==
    UNION {{ValueCall(chars, format) : chars \in Renderings(format, date)} :
             format \in Range(STOCK_DATE_FORMATS), date \in PoolDates(StockYears)}

DateCalls == ColumnCalls \cup CustomCalls \cup DayAbsentCalls \cup StockCalls

InitDate ==
    /\ ParIdle
    /\ PipelineIdle
    /\ DupIdle
    /\ s_pc = "ready"
    /\ \E c \in DateCalls : s_df = c.df /\ s_config = c.config
    /\ s_res = NoCall

CallConvertDateColumns ==
    /\ s_pc = "ready"
    /\ CallStage(convert_date_columns(s_df, s_config))

SpecDate == InitDate /\ [][CallConvertDateColumns]_vars

(***************************************************************************)
(* convert_columns_dtype(df, data_config) called on its own: tables of the *)
(* columns a, b and d; a dtype mapping of one or two columns, one of which *)
(* may be missing from the table (zz) or name no data type (banana); and   *)
(* date_columns absent, not a mapping, or naming d.                        *)
(***************************************************************************)
CoerceCols == <<"a", "b", "d">>

CoerceRowChoices ==
    {[c \in Range(CoerceCols) |-> IF c = "a" THEN x ELSE IF c = "b" THEN y ELSE z] :
       x \in {Str1, IntCell(2)}, y \in {StrX, Str1, NA}, z \in {Str122023}}

CoerceTables ==
    UNION {{MakeTable(CoerceCols, rs) : rs \in [1..n -> CoerceRowChoices]} :
             n \in 0..MaxStageRows}

DtypeItem(col, dtype) == [col |-> col, dtype |-> dtype]

DtypeItems ==
    {DtypeItem("a", "int"), DtypeItem("a", "float"), DtypeItem("a", "str"),
     DtypeItem("b", "int"), DtypeItem("b", "float"), DtypeItem("b", "banana"),
     DtypeItem("zz", "int")}

DtypeMaps ==
    {<<>>} \cup {<<x>> : x \in DtypeItems}
    \cup {m \in {<<x, y>> : x \in DtypeItems, y \in DtypeItems} : m[1].col # m[2].col}

CoerceConfigs ==
    {ConfigOf("dict", AbsentPath, dc, dt, AbsentMissingValues) :
       dc \in {AbsentItems, [st |-> "notmapping", items |-> <<>>],
               [st |-> "map", items |-> <<DateColumn("d", "XMYYYY")>>]},
       dt \in {AbsentItems} \cup {[st |-> "map", items |-> m] : m \in DtypeMaps}}

InitCoerce ==
    /\ ParIdle
    /\ PipelineIdle
    /\ DupIdle
    /\ s_pc = "ready"
    /\ s_df \in CoerceTables
    /\ s_config \in CoerceConfigs
    /\ s_res = NoCall

CallConvertColumnsDtype ==
    /\ s_pc = "ready"
    /\ CallStage(convert_columns_dtype(s_df, s_config))

SpecCoerce == InitCoerce /\ [][CallConvertColumnsDtype]_vars

(***************************************************************************)
(* handle_missing_values(df, config_file) called on its own: tables of two *)
(* numeric columns b and c of n rows, c missing in the first k rows and b  *)
(* in the others, for every k up to n.                                     *)
(***************************************************************************)
ImputeTable(n, k) ==
    MakeTable(<<"b", "c">>,
              [i \in 1..n |-> [col \in {"b", "c"} |->
                                 IF (col = "c") = (i <= k) THEN NA ELSE IntCell(2)]])

ImputeTables == UNION {{ImputeTable(n, k) : k \in 0..n} : n \in 0..MaxImputeRows}

ImputeConfigs ==
    {ConfigOf("dict", AbsentPath, AbsentItems, AbsentItems,
              [st |-> "full", method |-> method, subset |-> <<>>,
               drop_all_nulls |-> drop_all_nulls, null_threshold |-> null_threshold]) :
       method \in {"mean"}, drop_all_nulls \in BOOLEAN, null_threshold \in {0, 50, 55}}

(* Tables to fill: an integer column i and a float column f holding the    *)
(* same numbers (1, 2 or missing), and a column s of strings.  A column of *)
(* integers with a missing value is float64 in pandas: IsIntColumn is      *)
(* false of it.                                                            *)
FillCols == <<"i", "f", "s">>

FillRowChoices ==
    {[c \in Range(FillCols) |->
        IF c = "s" THEN y
        ELSE IF x = 0 THEN NA
        ELSE IF c = "i" THEN IntCell(x) ELSE FloatCell(x, 1)] :
       x \in {0, 1, 2}, y \in {StrX, NA}}

FillTables ==
    UNION {{MakeTable(FillCols, rs) : rs \in [1..n -> FillRowChoices]} : n \in 0..MaxFillRows}

MissingValues(method, subset, drop_all_nulls, null_threshold) ==
    [st |-> "full", method |-> method, subset |-> subset,
     drop_all_nulls |-> drop_all_nulls, null_threshold |-> null_threshold]

(* drop_all_nulls and null_threshold as a pair *)
FillDrops == {<<FALSE, 0>>, <<TRUE, 0>>, <<FALSE, 50>>}

FillConfigs ==
    {ConfigOf("dict", AbsentPath, AbsentItems, AbsentItems,
              MissingValues(method, subset, drops[1], drops[2])) :
       method \in {"mean", "ffill", "none"}, subset \in {<<>>, <<"zz", "i", "s">>},
       drops \in FillDrops}

(* missing_values absent (st "absent", also with no configuration at all), *)
(* or without one of its four keys: the others hold values that would act  *)
UnreadableConfigs ==
    {NoConfig, EmptyConfig}
    \cup {ConfigOf("dict", AbsentPath, AbsentItems, AbsentItems,
                   [st |-> st, method |-> "mean", subset |-> <<"i", "s">>,
                    drop_all_nulls |-> TRUE, null_threshold |-> 50]) :
            st \in {"absent", "no method", "no subset", "no drop_all_nulls",
                    "no null_threshold"}}

ImputeCalls ==
    (ImputeTables \X ImputeConfigs) \cup (FillTables \X (FillConfigs \cup UnreadableConfigs))

InitImpute ==
    /\ ParIdle
    /\ PipelineIdle
    /\ DupIdle
    /\ s_pc = "ready"
    /\ \E c \in ImputeCalls : s_df = c[1] /\ s_config = c[2]
    /\ s_res = NoCall

CallHandleMissingValues ==
    /\ s_pc = "ready"
    /\ CallStage(handle_missing_values(s_df, s_config))

SpecImpute == InitImpute /\ [][CallHandleMissingValues]_vars

(***************************************************************************)
(* Invocations of preprocess side by side (threads of one process), each   *)
(* on its own table and configuration.  A step is one stage of one         *)
(* invocation; the steps of different invocations interleave in any order. *)
(* convert_date_columns reads the registry at the time of its step (lines  *)
(* 87 and 93): a format the registry does not list is not recognized.      *)
(***************************************************************************)
ParTables ==
    {MakeTable(PipeCols, rs) :
       rs \in {<<>>,
               <<[c \in Range(PipeCols) |-> IF c = "a" THEN StrX ELSE Str122023]>>,
               <<[c \in Range(PipeCols) |-> IF c = "a" THEN Str1 ELSE Str122023],
                 [c \in Range(PipeCols) |-> IF c = "a" THEN Str1 ELSE Str122023]>>}}

ParConfigs ==
    {NoConfig,
     ConfigOf("dict", AbsentPath, [st |-> "map", items |-> <<DateColumn("d", "XMYYYY")>>],
              [st |-> "map", items |-> <<[col |-> "a", dtype |-> "float"]>>],
              AbsentMissingValues),
     ConfigOf("dict",
              [st |-> "list",
               entries |-> <<[column_name |-> "a", values_to_replace |-> <<StrX>>,
                              values_to_replace_with |-> <<Str1>>]>>],
              [st |-> "map", items |-> <<DateColumn("d", "%Y%m%d")>>],
              [st |-> "map", items |-> <<[col |-> "a", dtype |-> "int"]>>],
              [st |-> "full", method |-> "mean", subset |-> <<"d">>, drop_all_nulls |-> TRUE,
               null_threshold |-> 0]),
     ConfigOf("dict", AbsentPath, [st |-> "notmapping", items |-> <<>>],
              [st |-> "map", items |-> <<>>], AbsentMissingValues)}

(* the configuration with the date formats as the registry reg knows them *)
ReadThrough(reg, config) ==
    [config EXCEPT !.date_columns.items =
       [k \in 1..Len(config.date_columns.items) |->
          IF config.date_columns.items[k].date_format
               \in Range(reg.STOCK_DATE_FORMATS) \cup Range(reg.CUSTOM_DATE_FORMATS)
          THEN config.date_columns.items[k]
          ELSE [config.date_columns.items[k] EXCEPT !.date_format = ""]]]

InitPar ==
    /\ PipelineIdle
    /\ DupIdle
    /\ StageIdle
    /\ registry = Registry
    /\ inv \in [1..Invocations ->
                  {[pc |-> "handle_duplicates", df |-> t, config |-> c, table |-> t] :
                     t \in ParTables, c \in ParConfigs}]

ParStage_clears_registry(p, res, next) ==
    /\ inv' = [inv EXCEPT ![p] = [pc |-> IF res.raised THEN "raised" ELSE next,
                                  df |-> IF res.raised THEN res.obj ELSE res.ret,
                                  config |-> inv[p].config,
                                  table |-> inv[p].table]]
    /\ registry' = [STOCK_DATE_FORMATS |-> <<>>, CUSTOM_DATE_FORMATS |-> <<>>]
    /\ UNCHANGED <<pvars, dvars, svars>>

(* one stage of invocation p: df is rebound, nothing shared is written *)
ParStage(p, res, next) ==
    /\ inv' = [inv EXCEPT ![p] = [pc |-> IF res.raised THEN "raised" ELSE next,
                                  df |-> IF res.raised THEN res.obj ELSE res.ret,
                                  config |-> inv[p].config,
                                  table |-> inv[p].table]]
    /\ UNCHANGED <<registry, pvars, dvars, svars>>

ParHandleDuplicates(p) ==
    /\ inv[p].pc = "handle_duplicates"
    /\ ParStage(p, DefaultHandleDuplicates(inv[p].df),
                IF ConfigGiven(inv[p].config) THEN "replace_values" ELSE "done")

ParReplaceValues(p) ==
    /\ inv[p].pc = "replace_values"
    /\ ParStage(p, replace_values(inv[p].df, inv[p].config), "convert_columns_dtype")

ParConvertColumnsDtype(p) ==
    /\ inv[p].pc = "convert_columns_dtype"
    /\ ParStage(p, convert_columns_dtype(inv[p].df, ReadThrough(registry, inv[p].config)),
                "handle_missing_values")

ParHandleMissingValues(p) ==
    /\ inv[p].pc = "handle_missing_values"
    /\ ParStage(p, handle_missing_values(inv[p].df, inv[p].config), "done")

NextPar ==
    \E p \in 1..Invocations :
      \/ ParHandleDuplicates(p)
      \/ ParReplaceValues(p)
      \/ ParConvertColumnsDtype(p)
      \/ ParHandleMissingValues(p)

SpecPar == InitPar /\ [][NextPar]_vars

DupCols == <<"a", "b">>

DupCells == {NA, IntCell(1)}

DupCases == {"remove", "mark", "keep_last", "count", "drop"}

DupSubsets == {NoSubset, SubsetOf(<<"a">>)}

DupKeeps == {"first", "last", "False"}

DupArgs == [case : DupCases, subset : DupSubsets, keep : DupKeeps, inplace : BOOLEAN]

Call(t, args) == handle_duplicates(t, args.case, args.subset, args.keep, args.inplace)

InitDup ==
    /\ ParIdle
    /\ StageIdle
    /\ pc = "idle"
    /\ df = MakeTable(<<>>, <<>>)
    /\ data_config = NoConfig
    /\ table = MakeTable(<<>>, <<>>)
    /\ caller_df = MakeTable(<<>>, <<>>)
    /\ aliased = FALSE
    /\ trace = <<>>
    /\ d_pc = "ready"
    /\ d_df \in TablesOver(DupCols, DupCells, MaxRows)
    /\ d_args \in DupArgs
    /\ d_res = NoCall
    /\ d_again = NoCall

(* The caller calls handle_duplicates(d_df, ...) with the chosen arguments. *)
Resolve ==
    /\ d_pc = "ready"
    /\ d_pc' = "returned"
    /\ d_res' = Call(d_df, d_args)
    /\ UNCHANGED <<d_df, d_args, d_again, pvars, svars, cvars>>

(* The caller repeats the same call on the DataFrame it got back.          *)
ResolveAgain ==
    /\ d_pc = "returned"
    /\ d_pc' = "repeated"
    /\ d_again' = Call(d_res.ret, d_args)
    /\ UNCHANGED <<d_df, d_args, d_res, pvars, svars, cvars>>

(* The caller passes the DataFrame it got back to a call with new          *)
(* arguments.                                                              *)
ResolveNext ==
    /\ d_pc = "returned"
    /\ \E args \in DupArgs :
         /\ d_args' = args
         /\ d_df' = d_res.ret
         /\ d_res' = Call(d_res.ret, args)
    /\ d_again' = NoCall
    /\ UNCHANGED <<d_pc, pvars, svars, cvars>>

NextDup == Resolve \/ ResolveAgain \/ ResolveNext

SpecDup == InitDup /\ [][NextDup]_vars

(***************************************************************************)
(* Vocabulary of the claims about handle_duplicates.  A group is the set   *)
(* of row positions of a table whose keys (the cells of the subset         *)
(* columns, or of all columns) are equal.                                  *)
(***************************************************************************)
Min(S) == CHOOSE x \in S : \A y \in S : x <= y

Max(S) == CHOOSE x \in S : \A y \in S : x >= y

Group(t, subset, i) ==
    {j \in 1..Len(t.rows) :
       \A c \in KeyCols(t, subset) : t.rows[j].v[c] = t.rows[i].v[c]}

Flagged(t, subset, keep, i) ==
    CASE keep = "first" -> i # Min(Group(t, subset, i))
      [] keep = "last" -> i # Max(Group(t, subset, i))
      [] OTHER -> Cardinality(Group(t, subset, i)) > 1

HasDuplicates(t, subset) ==
    \E i \in 1..Len(t.rows) : Cardinality(Group(t, subset, i)) > 1

(* out holds exactly the rows of df at the positions in kept, in df's order *)
HoldsExactly(out, t, kept) ==
    /\ out.cols = t.cols
    /\ Len(out.rows) = Cardinality(kept)
    /\ \A i \in kept : \E k \in 1..Len(out.rows) : out.rows[k] = t.rows[i]
    /\ \A k \in 1..Len(out.rows) : \E i \in kept : out.rows[k] = t.rows[i]
    /\ \A k \in 1..(Len(out.rows) - 1) : out.rows[k].idx < out.rows[k + 1].idx

Called == d_pc # "ready"

(***************************************************************************)
(* Vocabulary of the claims about preprocess.  trace lists every call in   *)
(* the order the calls end: the calls convert_columns_dtype makes come     *)
(* before convert_columns_dtype itself.                                    *)
(***************************************************************************)
Finished == pc \in {"done", "raised"}

StageNames(calls) == [i \in 1..Len(calls) |-> calls[i].stage]

(* the stages that work on the table *)
Steps(calls) == SelectSeq(calls, LAMBDA e : e.stage # "convert_columns_dtype")

(* the stages preprocess calls itself *)
Orchestrated(calls) ==
    SelectSeq(calls, LAMBDA e : e.stage \notin {"convert_date_columns", "astype"})

(* the first call receives the caller's table, every other call the table  *)
(* the call before it returned                                             *)
Chained(calls) ==
    /\ calls # <<>> => calls[1].in = table
    /\ \A i \in 1..(Len(calls) - 1) : calls[i + 1].in = calls[i].out

NoOp(e) == ~e.raised /\ e.out = e.in

PathAbsent(path) == path.st = "absent"

\* C1: when preprocess is called with a configuration (here one that names
\* date columns) and returns, the stages that ran are handle_duplicates,
\* replace_values, convert_date_columns, the cast and
\* handle_missing_values, in this order, each once, and each received the
\* table the stage before it returned.
C1_StagesInOrder ==
    (pc = "done" /\ ConfigGiven(data_config) /\ data_config.date_columns.st = "map") =>
        /\ StageNames(Steps(trace)) =
             <<"handle_duplicates", "replace_values", "convert_date_columns", "astype",
               "handle_missing_values">>
        /\ Chained(Steps(trace))

\* C2: preprocess(table, None) returns the first occurrence of every
\* distinct row of table, in table's order, columns and values as they
\* were, and calls no stage but handle_duplicates.
C2_NoConfigOnlyDuplicates ==
    (pc = "done" /\ data_config = NoConfig) =>
        /\ HoldsExactly(df, table,
                        {i \in 1..Len(table.rows) : ~Flagged(table, NoSubset, "first", i)})
        /\ StageNames(trace) = <<"handle_duplicates">>

C2_Witness ==
    /\ pc = "done"
    /\ data_config = NoConfig
    /\ Len(table.rows) = 3
    /\ table.rows[1].v = table.rows[3].v
    /\ Len(df.rows) = 2

Ran(stage) == \E i \in 1..Len(trace) : trace[i].stage = stage

RepDirective == s_config.replace_values.entries[1]

(* the path is present and its first entry has a first value pair *)
RepDirectiveRead ==
    /\ s_config.replace_values.st = "list"
    /\ s_config.replace_values.entries # <<>>
    /\ RepDirective.values_to_replace # <<>>
    /\ RepDirective.values_to_replace_with # <<>>

(* out is t with every cell of column equal to old turned into new, and   *)
(* everything else as it was                                               *)
ReplacedIn(out, t, column, old, new) ==
    /\ out.cols = t.cols
    /\ Len(out.rows) = Len(t.rows)
    /\ \A i \in 1..Len(t.rows) :
         /\ out.rows[i].idx = t.rows[i].idx
         /\ \A c \in Range(t.cols) :
              out.rows[i].v[c] =
                 IF c = column /\ t.rows[i].v[c] = old THEN new ELSE t.rows[i].v[c]

\* C11: replace_values uses the first entry of replace_values and the first
\* element of its values_to_replace and values_to_replace_with only: in the
\* named column every cell equal to that value becomes the replacement,
\* and nothing else of the table changes, whatever further entries and
\* further value pairs the configuration holds.
C11_FirstDirectiveOnly ==
    (s_pc # "ready" /\ RepDirectiveRead /\ RepDirective.column_name \in Range(s_df.cols)) =>
        /\ s_pc = "returned"
        /\ ReplacedIn(s_res.ret, s_df, RepDirective.column_name,
                      RepDirective.values_to_replace[1],
                      RepDirective.values_to_replace_with[1])

C11_Witness ==
    /\ s_pc = "returned"
    /\ RepDirectiveRead
    /\ Len(s_config.replace_values.entries) = 2
    /\ Len(RepDirective.values_to_replace) = 2
    /\ Len(RepDirective.values_to_replace_with) = 2
    /\ RepDirective.column_name = "a"
    /\ Len(s_df.rows) = 2
    /\ s_df.rows[1].v["a"] = RepDirective.values_to_replace[1]
    /\ s_df.rows[2].v["a"] = RepDirective.values_to_replace[2]
    /\ s_res.ret.rows[1].v["a"] = RepDirective.values_to_replace_with[1]

\* C12: with the replace_values path fully present and a column_name that
\* is not a column of the table, replace_values raises.
C12_MissingColumnRaises ==
    ( /\ s_pc # "ready"
      /\ RepDirectiveRead
      /\ RepDirective.column_name \notin Range(s_df.cols) )
    => s_pc = "raised"

(***************************************************************************)
(* Vocabulary of the claims about convert_date_columns called on its own.  *)
(* Expected gives, for a value of the pool and a column entry, the         *)
(* normalized value the entry's format asks for: ok = FALSE when the value *)
(* is not a date in that format.                                           *)
(***************************************************************************)
DateEntries == s_config.date_columns.items

(* a call on a table of the two columns d and e *)
IsColumnCall == s_df.cols = <<"d", "e">>

Recognized(format) == format \in Range(STOCK_DATE_FORMATS) \cup Range(CUSTOM_DATE_FORMATS)

Chars20231231 == <<"2", "0", "2", "3", "-", "1", "2", "-", "3", "1">>

Chars20231228 == <<"2", "0", "2", "3", "-", "1", "2", "-", "2", "8">>

Expected(cell, entry) ==
    CASE entry.date_format = "%m/%d/%Y" ->
           IF cell = NA THEN [ok |-> TRUE, cell |-> NA]
           ELSE [ok |-> cell.s = CharsUS, cell |-> StrCell(Chars20231231)]
      [] entry.date_format = "XMYYYY" ->
           [ok |-> \/ cell.s = Chars122023
                   \/ entry.has_separator /\ cell.s = CharsDashed,
            cell |-> StrCell(Chars20231228)]
      [] OTHER -> [ok |-> FALSE, cell |-> cell]

(* every value of the entry's column is a date in the entry's format *)
Parses(t, entry) ==
    /\ Recognized(entry.date_format)
    /\ \A i \in 1..Len(t.rows) : Expected(t.rows[i].v[entry.col], entry).ok

(* the entry's column of out holds the normalized values of that column of t *)
Normalized(out, t, entry) ==
    /\ Len(out.rows) = Len(t.rows)
    /\ \A i \in 1..Len(t.rows) :
         out.rows[i].v[entry.col] = Expected(t.rows[i].v[entry.col], entry).cell

Untouched(out, t, col) == Column(out, col) = Column(t, col)

\* C13: when an entry of date_columns has a date_format that is neither a
\* stock format nor a custom code, or has none, convert_date_columns
\* returns with that column as it was and with every other configured
\* column whose values parse normalized, in either order of the entries.
C13_UnrecognizedFormatSkipped ==
    ( /\ s_pc # "ready"
      /\ IsColumnCall
      /\ \E k \in 1..Len(DateEntries) : ~Recognized(DateEntries[k].date_format) )
    => /\ s_pc = "returned"
       /\ \A k \in 1..Len(DateEntries) :
            /\ ~Recognized(DateEntries[k].date_format)
                 => Untouched(s_res.ret, s_df, DateEntries[k].col)
            /\ Parses(s_df, DateEntries[k]) => Normalized(s_res.ret, s_df, DateEntries[k])

C13_Witness ==
    /\ s_pc = "returned"
    /\ Len(DateEntries) = 2
    /\ DateEntries[1].col = "d"
    /\ DateEntries[1].date_format = "banana"
    /\ Parses(s_df, DateEntries[2])
    /\ Len(s_df.rows) = 2
    /\ s_df.rows[1].v["d"] = StrCell(Chars122023)
    /\ s_res.ret.rows[1].v["d"] = StrCell(Chars122023)
    /\ s_res.ret.rows[1].v["e"] = StrCell(Chars20231231)

\* C14: when a value of a configured column does not parse in the column's
\* format (stock or custom, with or without a separator),
\* convert_date_columns returns, that column holds the values it held
\* before, and every other configured column whose values parse is
\* normalized.
C14_FailedColumnAsBefore ==
    (s_pc # "ready" /\ IsColumnCall) =>
       /\ s_pc = "returned"
       /\ \A k \in 1..Len(DateEntries) :
            /\ ( Recognized(DateEntries[k].date_format) /\ ~Parses(s_df, DateEntries[k]) )
                 => Untouched(s_res.ret, s_df, DateEntries[k].col)
            /\ Parses(s_df, DateEntries[k]) => Normalized(s_res.ret, s_df, DateEntries[k])

(***************************************************************************)
(* Vocabulary of the claims about single values.  CodeFields reads the     *)
(* year, month and day of a value by the positional rule of a custom code. *)
(***************************************************************************)
IsValueCall == s_df.cols = <<"d">> /\ Len(s_df.rows) = 1 /\ Len(DateEntries) = 1

ValueIn == s_df.rows[1].v["d"].s

ValueOut == s_res.ret.rows[1].v["d"]

Last(x, k) == SubSeq(x, Len(x) - k + 1, Len(x))

Front(x, k) == SubSeq(x, 1, Len(x) - k)

Iso(y, m, d) == StrCell(Pad4(y) \o <<"-">> \o Pad2(m) \o <<"-">> \o Pad2(d))

CodeFields(code, x) ==
    CASE code = "XMYYYY" -> [Y |-> Last(x, 4), m |-> Front(x, 4), d |-> <<"2", "8">>]
      [] code = "XDXMYYYY" -> [Y |-> Last(x, 4), m |-> <<x[Len(x) - 4]>>, d |-> Front(x, 5)]
      [] code = "XMXDYYYY" -> [Y |-> Last(x, 4), m |-> Front(x, 5), d |-> <<x[Len(x) - 4]>>]
      [] code = "DDMMYY" ->
           [Y |-> <<"2", "0">> \o Last(x, 2), m |-> SubSeq(x, 3, 4), d |-> SubSeq(x, 1, 2)]
      [] code = "MMDDYY" ->
           [Y |-> <<"2", "0">> \o Last(x, 2), m |-> SubSeq(x, 1, 2), d |-> SubSeq(x, 3, 4)]
      [] code = "XDXMYY" ->
           [Y |-> <<"2", "0">> \o Last(x, 2), m |-> <<x[Len(x) - 2]>>, d |-> Front(x, 3)]
      [] OTHER ->
           [Y |-> <<"2", "0">> \o Last(x, 2), m |-> Front(x, 3), d |-> <<x[Len(x) - 2]>>]

(* all fields present, and together a date a Timestamp can hold *)
WellFormed(code, x) ==
    /\ Len(x) >= (IF code = "XMYYYY" THEN 5 ELSE IF code \in {"XDXMYYYY", "XMXDYYYY"} THEN 6
                  ELSE IF code \in {"DDMMYY", "MMDDYY"} THEN 6 ELSE 4)
    /\ AllDigits(x)
    /\ ValidDate(Num(CodeFields(code, x).Y), Num(CodeFields(code, x).m),
                 Num(CodeFields(code, x).d))

DayAbsent(code, x) ==
    /\ code \in DayCodes
    /\ AllDigits(x)
    /\ Len(x) = (IF code \in {"XDXMYYYY", "XMXDYYYY"} THEN 5
                 ELSE IF code \in {"XDXMYY", "XMXDYY"} THEN 3 ELSE 4)

YearDigits(code) == IF code \in {"XDXMYYYY", "XMXDYYYY"} THEN 4 ELSE 2

YearOf(code, x) ==
    IF YearDigits(code) = 4 THEN Num(Last(x, 4)) ELSE 2000 + Num(Last(x, 2))

\* C16: for every custom code with a day field, a value that holds only a
\* month and a year (such as "12023" under XDXMYYYY) is normalized to day
\* 28 of that month and year.
C16_AbsentDayIs28 ==
    ( /\ s_pc # "ready"
      /\ IsValueCall
      /\ DayAbsent(DateEntries[1].date_format, ValueIn) )
    => /\ s_pc = "returned"
       /\ ValueOut = Iso(YearOf(DateEntries[1].date_format, ValueIn),
                         Num(Front(ValueIn, YearDigits(DateEntries[1].date_format))), 28)

(***************************************************************************)
(* Vocabulary of the stock-format round trip.  IsStockValue says the value *)
(* of the call is date written in the format of the call.                  *)
(***************************************************************************)
IsStockValue(date) ==
    /\ IsValueCall
    /\ DateEntries[1].date_format \in Range(STOCK_DATE_FORMATS)
    /\ ValueIn \in Renderings(DateEntries[1].date_format, date)

TwoDigitYear(format) == "%y" \in Range(FormatTokens(format))

(* the years a rendering names without loss: those a Timestamp holds, and  *)
(* for a two-digit year the century window 1969..2068 of %y                *)
Recoverable(format, date) ==
    /\ date.Y >= 1678 /\ date.Y <= 2261
    /\ TwoDigitYear(format) => (date.Y >= 1969 /\ date.Y <= 2068)

\* C17 as stated: for every stock format of the registry and every calendar
\* date, the date rendered in that format is normalized to the same date
\* rendered as YYYY-MM-DD (a time of day is discarded).
C17_StockRoundTripEveryDate ==
    \A date \in PoolDates(StockYears) :
      ( s_pc # "ready" /\ IsStockValue(date) )
      => /\ s_pc = "returned"
         /\ ValueOut = Iso(date.Y, date.m, date.d)

\* C17 amended: for every stock format of the registry and every calendar
\* date whose year lies between 1678 and 2261, and between 1969 and 2068
\* when the format writes the year in two digits (%y), the date rendered in
\* that format is normalized to the same date rendered as YYYY-MM-DD (a time
\* of day is discarded).
C17_StockRoundTrip ==
    \A date \in PoolDates(StockYears) :
      ( s_pc # "ready" /\ IsStockValue(date) /\ Recoverable(DateEntries[1].date_format, date) )
      => /\ s_pc = "returned"
         /\ ValueOut = Iso(date.Y, date.m, date.d)

C17_Witness ==
    /\ s_pc = "returned"
    /\ IsStockValue([Y |-> 2023, m |-> 12, d |-> 31])
    /\ DateEntries[1].date_format = "%m/%d/%Y"
    /\ ValueIn = CharsUS
    /\ ValueOut = StrCell(Chars20231231)

(***************************************************************************)
(* Vocabulary of the claims about convert_columns_dtype called on its own. *)
(* AfterDates is the table the cast received, DtypeMap the mapping.        *)
(***************************************************************************)
DtypeMap == s_config.dtype.items

CastTried == Len(s_res.calls) = 2 /\ s_res.calls[2].stage = "astype"

AfterDates == s_res.calls[2].in

(* the cast of one column on its own succeeds *)
CastsAlone(t, item) ==
    /\ item.col \in Range(t.cols)
    /\ \A i \in 1..Len(t.rows) : CastCell(t.rows[i].v[item.col], item.dtype).ok

BulkCastFails(t) == \E k \in 1..Len(DtypeMap) : ~CastsAlone(t, DtypeMap[k])

HasType(series, dtype) ==
    \A i \in 1..Len(series) :
      CASE dtype = "int" -> series[i].t = "int"
        [] dtype = "float" -> series[i].t \in {"float", "null"}
        [] dtype = "str" -> series[i].t = "str"
        [] OTHER -> FALSE

\* C18: when the bulk cast of the dtype mapping fails because at least one
\* column cannot be cast, convert_columns_dtype raises nothing and returns
\* a table in which every mapped column whose own cast succeeds holds its
\* values cast to the target type, and every mapped column whose cast fails
\* or that is missing from the table, like every column not mapped, keeps
\* its type and values.
C18_FallbackCastsEachColumn ==
    ( s_pc # "ready" /\ s_config.dtype.st = "map" /\ CastTried /\ BulkCastFails(AfterDates) )
    => /\ s_pc = "returned"
       /\ s_res.ret.cols = AfterDates.cols
       /\ \A k \in 1..Len(DtypeMap) :
            IF CastsAlone(AfterDates, DtypeMap[k])
            THEN /\ HasType(Column(s_res.ret, DtypeMap[k].col), DtypeMap[k].dtype)
                 /\ Column(s_res.ret, DtypeMap[k].col)
                      = CastColumn(Column(AfterDates, DtypeMap[k].col), DtypeMap[k].dtype)
            ELSE DtypeMap[k].col \in Range(AfterDates.cols)
                 => Column(s_res.ret, DtypeMap[k].col) = Column(AfterDates, DtypeMap[k].col)
       /\ \A c \in Range(AfterDates.cols) \ {DtypeMap[k].col : k \in 1..Len(DtypeMap)} :
            Column(s_res.ret, c) = Column(AfterDates, c)

C18_Witness ==
    /\ s_pc = "returned"
    /\ DtypeMap = <<DtypeItem("a", "int"), DtypeItem("b", "int")>>
    /\ Len(s_df.rows) = 2
    /\ Column(s_df, "a") = <<Str1, Str1>>
    /\ Column(s_df, "b") = <<Str1, StrX>>
    /\ Column(s_res.ret, "a") = <<IntCell(1), IntCell(1)>>
    /\ Column(s_res.ret, "b") = <<Str1, StrX>>

\* C19: convert_columns_dtype always calls convert_date_columns first: when
\* the path configuration / attributes / dtype is absent and date_columns
\* names a column, it returns the table with that column normalized to
\* YYYY-MM-DD and no column cast.
C19_DatesWithoutDtype ==
    ( /\ s_pc # "ready"
      /\ s_df.cols = CoerceCols
      /\ Len(s_df.rows) > 0
      /\ s_config.dtype.st = "absent"
      /\ s_config.date_columns.st = "map" )
    => /\ s_pc = "returned"
       /\ Len(s_res.calls) >= 1 /\ s_res.calls[1].stage = "convert_date_columns"
       /\ \A k \in 1..Len(DateEntries) :
            Parses(s_df, DateEntries[k]) => Normalized(s_res.ret, s_df, DateEntries[k])
       /\ \A c \in {"a", "b"} : Column(s_res.ret, c) = Column(s_df, c)

(***************************************************************************)
(* Vocabulary of the claims about handle_missing_values called on its own. *)
(***************************************************************************)
Imputing == s_config.missing_values

AllNull(t, c) == \A i \in 1..Len(t.rows) : t.rows[i].v[c] = NA

Dropped(c) == c \notin Range(s_res.ret.cols)

\* C20: with a null_threshold that is not zero, handle_missing_values
\* drops a column if and only if its percentage of missing values, nulls /
\* rows * 100, is strictly greater than null_threshold: a column with
\* exactly null_threshold percent of missing values is kept, and one with
\* one more missing row is dropped.  (A column that drop_all_nulls has
\* removed before is left aside.)
C20_DropsIffOverThreshold ==
    ( /\ s_pc # "ready"
      /\ s_df.cols = <<"b", "c">>
      /\ Len(s_df.rows) > 0
      /\ Imputing.st = "full"
      /\ Imputing.null_threshold # 0 )
    => /\ s_pc = "returned"
       /\ \A c \in Range(s_df.cols) :
            ~(Imputing.drop_all_nulls /\ AllNull(s_df, c))
            => ( Dropped(c)
                 <=> NullCount(Column(s_df, c)) * 100
                       > Imputing.null_threshold * Len(s_df.rows) )

(***************************************************************************)
(* Vocabulary of the claims about filling.  AfterDrops is the table once   *)
(* drop_all_nulls and null_threshold have removed their columns.           *)
(***************************************************************************)
IsFillCall == s_df.cols = FillCols /\ Imputing.st = "full"

HasNull(series) == \E k \in 1..Len(series) : series[k] = NA

HasValue(series) == \E k \in 1..Len(series) : series[k] # NA

(* two numbers are the same number, integer or float *)
SameNumber(x, y) == x.t \in {"int", "float"} /\ y.t \in {"int", "float"} /\ x.n * y.d = y.n * x.d

(* out is series with every missing value replaced by the number fill *)
FilledWith(out, series, fill) ==
    /\ Len(out) = Len(series)
    /\ \A k \in 1..Len(series) :
         IF series[k] = NA THEN SameNumber(out[k], fill) ELSE SameNumber(out[k], series[k])

\* C21: with method mean, an integer column that has a missing value (such
\* as [1, 2, null]) has it filled with the rounded mean of the column (2),
\* and a float column of the same values has it filled with the mean as it
\* is (1.5).
C21_MeanRoundedForIntegers ==
    ( /\ s_pc # "ready"
      /\ IsFillCall
      /\ Imputing.method = "mean"
      /\ Imputing.subset = <<>>
      /\ ~Dropped("i") /\ ~Dropped("f")
      /\ HasNull(Column(s_df, "i")) /\ HasValue(Column(s_df, "i")) )
    => /\ FilledWith(Column(s_res.ret, "i"), Column(s_df, "i"), round(mean(Column(s_df, "i"))))
       /\ FilledWith(Column(s_res.ret, "f"), Column(s_df, "f"), mean(Column(s_df, "f")))

(* a column of the table as the method step leaves it, for the methods of  *)
(* the pool that can leave a missing value                                 *)
AfterMethod(c) ==
    IF Imputing.method = "ffill" /\ c \in {"i", "f"} THEN ffill(Column(s_df, c))
    ELSE Column(s_df, c)

InSubset(c) == c \in Range(Imputing.subset)

\* C22: every column listed in subset that still has a missing value after
\* the method steps has it filled with the mean of the column when the
\* column is numeric, and with the most frequent value of the column when
\* it is not.
C22_SubsetMeanOrMode ==
    ( /\ s_pc # "ready"
      /\ IsFillCall
      /\ Imputing.method \in {"ffill", "none"}
      /\ InSubset("i") /\ InSubset("s")
      /\ ~Dropped("i") /\ ~Dropped("s") )
    => /\ ( HasNull(AfterMethod("i")) /\ HasValue(AfterMethod("i")) )
            => FilledWith(Column(s_res.ret, "i"), AfterMethod("i"), mean(AfterMethod("i")))
       /\ ( HasNull(AfterMethod("s")) /\ HasValue(AfterMethod("s")) )
            => Column(s_res.ret, "s") = fillna(AfterMethod("s"), mode(AfterMethod("s"))[1])

(* a subset column the subset step fails on: it is not in the table, was   *)
(* dropped before, or has no value and so no most frequent one             *)
SubsetFails(c) == c \notin Range(s_df.cols) \/ Dropped(c) \/ ~HasValue(AfterMethod(c))

(* the method step has done its work on the numeric column c *)
MethodDone(c) ==
    CASE Imputing.method = "mean" ->
           HasValue(Column(s_df, c)) => ~HasNull(Column(s_res.ret, c))
      [] Imputing.method = "ffill" ->
           \A k \in 1..Len(s_df.rows) :
             ( s_df.rows[k].v[c] = NA /\ \E j \in 1..k : s_df.rows[j].v[c] # NA )
             => s_res.ret.rows[k].v[c] # NA
      [] OTHER -> TRUE

\* C23: handle_missing_values never raises: when the subset step fails on a
\* column (one that is not in the table, one the threshold or all-null
\* step dropped, or one with no value and so no mode), that column is as
\* it was, every other subset column still has its missing values filled,
\* and the method step has filled the numeric columns that remain.
C23_FailureSkipsOneColumn ==
    ( /\ s_pc # "ready"
      /\ IsFillCall
      /\ \E c \in Range(Imputing.subset) : SubsetFails(c) )
    => /\ s_pc = "returned"
       /\ Len(s_res.ret.rows) = Len(s_df.rows)
       /\ \A c \in Range(Imputing.subset) :
            IF SubsetFails(c)
            THEN c \in Range(s_res.ret.cols) => Column(s_res.ret, c) = AfterMethod(c)
            ELSE ~HasNull(Column(s_res.ret, c))
       /\ \A c \in {"i", "f"} : ~Dropped(c) => MethodDone(c)

C23_Witness ==
    /\ s_pc = "returned"
    /\ IsFillCall
    /\ Imputing.subset = <<"zz", "i", "s">>
    /\ Imputing.null_threshold = 50
    /\ Imputing.method = "none"
    /\ Len(s_df.rows) = 3
    /\ Dropped("i")
    /\ ~Dropped("s")
    /\ HasNull(Column(s_df, "s"))
    /\ ~HasNull(Column(s_res.ret, "s"))

\* C24: when the missing_values configuration is absent, or lacks one of
\* the keys method, subset, drop_all_nulls, null_threshold,
\* handle_missing_values returns the table as it was, no column dropped
\* and no value filled, and raises nothing.
C24_UnreadableConfigReturnsTable ==
    ( s_pc # "ready" /\ s_df.cols = FillCols /\ Imputing.st # "full" )
    => /\ s_pc = "returned"
       /\ s_res.ret = s_df
       /\ s_res.obj = s_df

C24_Witness ==
    /\ s_pc = "returned"
    /\ s_df.cols = FillCols
    /\ Imputing.st = "no subset"
    /\ Imputing.drop_all_nulls
    /\ Len(s_df.rows) = 2
    /\ ~HasValue(Column(s_df, "i"))
    /\ HasNull(Column(s_df, "s")) /\ HasValue(Column(s_df, "s"))
    /\ s_res.ret = s_df

\* C27: preprocess is a pure transformation of its input: once
\* preprocess(table, config) has returned, the table object the caller
\* passed holds the columns and values it held before the call, whether
\* the table had duplicate rows or none.
C27_CallerTableUntouched ==
    pc = "done" => caller_df = table

\* C28: the table preprocess returns when it is given a configuration has
\* no two rows equal in every column, also when replacing values,
\* normalizing dates, casting or filling has made rows equal that were
\* distinct.
C28_OutputDeduplicated ==
    ( pc = "done" /\ ConfigGiven(data_config) )
    => \A i, j \in 1..Len(df.rows) : df.rows[i].v = df.rows[j].v => i = j

(***************************************************************************)
(* Vocabulary of the claim about what a stage leaves alone.  Targets are   *)
(* the columns the configuration names for a stage; the method of          *)
(* missing_values names every numeric column.                              *)
(***************************************************************************)
EntryColumns(entries) == {entries[k].column_name : k \in 1..Len(entries)}

ItemColumns(items) == {items[k].col : k \in 1..Len(items)}

Targets(e) ==
    CASE e.stage = "replace_values" -> EntryColumns(data_config.replace_values.entries)
      [] e.stage = "convert_date_columns" -> ItemColumns(data_config.date_columns.items)
      [] e.stage = "astype" -> ItemColumns(data_config.dtype.items)
      [] e.stage = "convert_columns_dtype" ->
           ItemColumns(data_config.date_columns.items) \cup ItemColumns(data_config.dtype.items)
      [] e.stage = "handle_missing_values" ->
           Range(data_config.missing_values.subset)
           \cup (IF data_config.missing_values.method \in {"mean", "median", "ffill", "bfill"}
                 THEN {c \in Range(e.in.cols) : IsNumericColumn(Column(e.in, c))}
                 ELSE {})
      [] OTHER -> {}

RowLabels(t) == [i \in 1..Len(t.rows) |-> t.rows[i].idx]

KeepsColumnOrder(e) == e.out.cols = SelectSeq(e.in.cols, LAMBDA c : c \in Range(e.out.cols))

\* C26: in every stage the columns that survive keep their relative order
\* and every column the configuration of the stage does not target keeps
\* its values; replace_values, convert_date_columns, convert_columns_dtype
\* and handle_missing_values leave the number and the order of the rows as
\* they are, and only handle_duplicates removes rows.
C26_StagesKeepOrderAndOthers ==
    \A k \in 1..Len(trace) :
      ~trace[k].raised
      => /\ KeepsColumnOrder(trace[k])
         /\ \A c \in Range(trace[k].out.cols) \ Targets(trace[k]) :
              \A i \in 1..Len(trace[k].out.rows) :
                \E j \in 1..Len(trace[k].in.rows) :
                  /\ trace[k].in.rows[j].idx = trace[k].out.rows[i].idx
                  /\ trace[k].in.rows[j].v[c] = trace[k].out.rows[i].v[c]
         /\ IF trace[k].stage = "handle_duplicates"
            THEN \E keep \in SUBSET (1..Len(trace[k].in.rows)) :
                   RowLabels(trace[k].out)
                     = SelectSeq(RowLabels(trace[k].in),
                                 LAMBDA x : \E i \in keep : trace[k].in.rows[i].idx = x)
            ELSE RowLabels(trace[k].out) = RowLabels(trace[k].in)

C26_Witness ==
    /\ pc = "done"
    /\ Len(trace) = 6
    /\ Len(trace[1].out.rows) < Len(trace[1].in.rows)
    /\ trace[2].out # trace[2].in
    /\ data_config.date_columns.st = "absent"
    /\ Column(trace[4].out, "a") # Column(trace[4].in, "a")
    /\ trace[6].stage = "handle_missing_values"
    /\ Len(trace[6].out.cols) < Len(trace[6].in.cols)

(* a value written YYYY-MM-DD *)
IsIso(cell) ==
    /\ cell.t = "str"
    /\ Len(cell.s) = 10
    /\ cell.s[5] = "-" /\ cell.s[8] = "-"
    /\ \A k \in {1, 2, 3, 4, 6, 7, 9, 10} : IsDigit(cell.s[k])

IsCustom(entry) == entry.date_format \in Range(CUSTOM_DATE_FORMATS)

IsStock(entry) == entry.date_format \in Range(STOCK_DATE_FORMATS)

\* C29: a missing value makes a whole custom-code column fail: when a
\* column configured with a custom code holds at least one missing value,
\* no value of the column is normalized to YYYY-MM-DD; a stock-format
\* column with missing values has its other values normalized and the
\* missing ones left missing.
C29_NullFailsCustomColumn ==
    ( s_pc # "ready" /\ IsColumnCall )
    => /\ s_pc = "returned"
       /\ \A k \in 1..Len(DateEntries) :
            /\ ( IsCustom(DateEntries[k]) /\ HasNull(Column(s_df, DateEntries[k].col)) )
                 => \A i \in 1..Len(s_df.rows) :
                      ~IsIso(s_res.ret.rows[i].v[DateEntries[k].col])
            /\ ( /\ IsStock(DateEntries[k])
                 /\ HasNull(Column(s_df, DateEntries[k].col))
                 /\ Parses(s_df, DateEntries[k]) )
                 => /\ Normalized(s_res.ret, s_df, DateEntries[k])
                    /\ \A i \in 1..Len(s_df.rows) :
                         s_df.rows[i].v[DateEntries[k].col] = NA
                         <=> s_res.ret.rows[i].v[DateEntries[k].col] = NA

C29_Witness ==
    /\ s_pc = "returned"
    /\ IsColumnCall
    /\ DateEntries = <<DateColumn("d", "XMYYYY"), DateColumn("e", "%m/%d/%Y")>>
    /\ Column(s_df, "d") = <<StrCell(Chars122023), NA>>
    /\ Column(s_df, "e") = <<StrCell(CharsUS), NA>>
    /\ Column(s_res.ret, "d") = <<StrCell(Chars122023), NA>>
    /\ Column(s_res.ret, "e") = <<StrCell(Chars20231231), NA>>

(***************************************************************************)
(* Vocabulary of the claim about invocations side by side.  Alone is what  *)
(* preprocess gives for a table and a configuration when nothing else      *)
(* runs: the stages one after the other, with the registry as loaded.      *)
(***************************************************************************)
Then(res, F(_)) == IF res.raised THEN res ELSE F(res.ret)

Outcome(res) ==
    [pc |-> IF res.raised THEN "raised" ELSE "done",
     df |-> IF res.raised THEN res.obj ELSE res.ret]

AllStages(t, c) ==
    Then(Then(Then(DefaultHandleDuplicates(t),
                   LAMBDA x : replace_values(x, c)),
              LAMBDA x : convert_columns_dtype(x, c)),
         LAMBDA x : handle_missing_values(x, c))

Alone(t, c) ==
    IF ConfigGiven(c) THEN Outcome(AllStages(t, c)) ELSE Outcome(DefaultHandleDuplicates(t))

Ended(p) == inv[p].pc \in {"done", "raised"}

\* C25: invocations of preprocess running side by side, each on its own
\* table and configuration, each end with what the invocation gives when
\* it runs alone, in every interleaving of their stages; and no invocation
\* writes STOCK_DATE_FORMATS, CUSTOM_DATE_FORMATS or any other state that
\* invocations share.
C25_ParallelAsAlone ==
    /\ registry = Registry
    /\ \A p \in 1..Invocations :
         /\ inv[p].config \in ParConfigs
         /\ inv[p].table \in ParTables \cup {MakeTable(<<>>, <<>>)}
         /\ Ended(p) => [pc |-> inv[p].pc, df |-> inv[p].df]
                          = Alone(inv[p].table, inv[p].config)

C25_Witness ==
    /\ \A p \in 1..Invocations : Ended(p)
    /\ inv[1].pc = "done"
    /\ inv[1].config.date_columns.st = "map"
    /\ Len(inv[1].table.rows) = 2
    /\ Len(inv[1].df.rows) = 1
    /\ inv[1].df.rows[1].v["d"] = StrCell(Chars20231228)
    /\ inv[2].pc = "raised"

\* C5: handle_duplicates with case remove, called again with the same subset
\* and keep on the table it returned, returns that table again: same rows,
\* same order, same columns.
C5_RemoveIdempotent ==
    (d_pc = "repeated" /\ d_args.case = "remove") => d_again.ret = d_res.ret

C5_Witness ==
    /\ d_pc = "repeated"
    /\ d_args.case = "remove"
    /\ Len(d_res.ret.rows) < Len(d_df.rows)
    /\ Len(d_res.ret.rows) >= 2
    /\ d_again.ret = d_res.ret

\* C6: on a table without duplicate rows under the given subset and keep,
\* handle_duplicates returns the table itself, unchanged, whatever the case;
\* case mark adds no is_duplicate column.
C6_NoDuplicatesUnchanged ==
    (Called /\ ~HasDuplicates(d_df, d_args.subset))
        => (d_res.ret = d_df /\ d_res.obj = d_df /\ d_res.same)

C6_Witness ==
    /\ d_pc = "returned"
    /\ d_args.case = "mark"
    /\ ~HasDuplicates(d_df, d_args.subset)
    /\ Len(d_df.rows) >= 2
    /\ "is_duplicate" \notin Range(d_res.ret.cols)

\* C7: with case remove the returned table holds exactly the input rows not
\* flagged under subset and keep, in their original order: the first row of
\* each group for keep first, the last for keep last, the rows whose key
\* occurs once for keep False.
C7_RemoveKeepsUnflagged ==
    (Called /\ d_args.case = "remove")
        => HoldsExactly(d_res.ret, d_df,
                        {i \in 1..Len(d_df.rows) :
                           ~Flagged(d_df, d_args.subset, d_args.keep, i)})

C7_Witness ==
    /\ Called
    /\ d_args.case = "remove"
    /\ d_args.keep = "last"
    /\ Len(d_df.rows) = 3
    /\ Len(d_res.ret.rows) = 2
    /\ d_res.ret.rows[1].idx = 2

\* C8: with case keep_last the returned table holds exactly the last row of
\* each group, whatever the keep argument is.
C8_KeepLastIgnoresKeep ==
    (Called /\ d_args.case = "keep_last")
        => HoldsExactly(d_res.ret, d_df,
                        {i \in 1..Len(d_df.rows) :
                           i = Max(Group(d_df, d_args.subset, i))})

C8_Witness ==
    /\ Called
    /\ d_args.case = "keep_last"
    /\ d_args.keep = "first"
    /\ Len(d_df.rows) = 3
    /\ Len(d_res.ret.rows) = 2
    /\ d_res.ret.rows[1].idx = 2

(* the rows of out are the rows of df, each with the cells of cols kept     *)
SameRowsOn(out, t, colset) ==
    /\ Len(out.rows) = Len(t.rows)
    /\ \A i \in 1..Len(t.rows) :
         /\ out.rows[i].idx = t.rows[i].idx
         /\ \A c \in colset : out.rows[i].v[c] = t.rows[i].v[c]

MarkedExactly(out, t, subset, keep) ==
    \A i \in 1..Len(t.rows) :
       out.rows[i].v["is_duplicate"] = BoolCell(Flagged(t, subset, keep, i))

\* C9 as stated: with case mark on a table that has duplicates, the result
\* is the input with every original column unchanged plus one new boolean
\* column is_duplicate, true exactly for the flagged rows.
C9_MarkAddsOneColumn ==
    (Called /\ d_args.case = "mark" /\ HasDuplicates(d_df, d_args.subset))
        => /\ d_res.ret.cols = Append(d_df.cols, "is_duplicate")
           /\ SameRowsOn(d_res.ret, d_df, Range(d_df.cols))
           /\ MarkedExactly(d_res.ret, d_df, d_args.subset, d_args.keep)

\* C9 amended: with case mark on a table that has duplicates, no row is
\* dropped or moved, every original column other than is_duplicate is
\* unchanged, and the column is_duplicate -- appended when the table has no
\* such column, overwritten in its place when it has one -- is true exactly
\* for the flagged rows.
C9_MarkSetsIsDuplicate ==
    (Called /\ d_args.case = "mark" /\ HasDuplicates(d_df, d_args.subset))
        => /\ d_res.ret.cols = IF "is_duplicate" \in Range(d_df.cols) THEN d_df.cols
                               ELSE Append(d_df.cols, "is_duplicate")
           /\ SameRowsOn(d_res.ret, d_df, Range(d_df.cols) \ {"is_duplicate"})
           /\ MarkedExactly(d_res.ret, d_df, d_args.subset, d_args.keep)
           /\ d_res.obj = d_res.ret

C9_Witness ==
    /\ Called
    /\ d_args.case = "mark"
    /\ d_args.keep = "False"
    /\ "is_duplicate" \notin Range(d_df.cols)
    /\ Len(d_df.rows) = 3
    /\ d_res.ret.rows[1].v["is_duplicate"] = BoolCell(TRUE)
    /\ d_res.ret.rows[2].v["is_duplicate"] = BoolCell(FALSE)
    /\ d_res.ret.rows[3].v["is_duplicate"] = BoolCell(TRUE)

\* C10: for a case other than remove, mark and keep_last (count included)
\* handle_duplicates returns the table unchanged, duplicates or not.
C10_OtherCaseUnchanged ==
    (Called /\ d_args.case \notin {"remove", "mark", "keep_last"})
        => (d_res.ret = d_df /\ d_res.obj = d_df)

C10_Witness ==
    /\ Called
    /\ d_args.case = "count"
    /\ HasDuplicates(d_df, d_args.subset)
    /\ d_res.ret = d_df

====
